---- MODULE Spec2Model ----
(***************************************************************************)
(* The Fravia menu server: the hygiene resolver (getActiveFilters), the    *)
(* phase menu catalog (getPhaseMenu) and the query builder (buildQueries)  *)
(* over the menu and filter tables of the repository, the configuration    *)
(* loader (loadConfig), the engine registry with its instruction           *)
(* generators, and the handler of tool calls with the state it keeps.      *)
(*                                                                         *)
(* Strings.  A string the code only concatenates or compares is a TLA+     *)
(* string.  A string the code scans (codes, engine names, templates,       *)
(* topics) is a sequence of tokens whose concatenation, Flatten, is its    *)
(* text.  Every character a scan can tell apart is a token of its own: an  *)
(* uppercase letter in codes and engine names; "<", ">" and "$" and the    *)
(* character after a "$" in templates and topics; every character of a run *)
(* of digits that is a whole token run.  A longer token holds none of      *)
(* "<", ">", "$" and at least one character that is not a digit, so that a *)
(* match of /<\d+>/ is exactly "<", one or more digit tokens, ">".         *)
(***************************************************************************)
EXTENDS Integers, Sequences, FiniteSets, TLC

VARIABLES
  config,    \* the loaded FraviaConfig (executor.ts: let config)
  op,        \* which function the call is of ("buildQueries", "getActiveFilters", ...)
  pc,        \* "call": arguments bound, not yet run; "done": returned
  phase,     \* argument phase
  topics,    \* argument topics: a sequence of strings (token sequences)
  codes,     \* argument codes: a string (token sequence of single characters)
  engine,    \* argument engine of getActiveFilters (token sequence)
  menu,      \* buildQueries' local menu
  queries,   \* buildQueries' local queries, before deduplication
  exclusions,\* getActiveFilters' local exclusions
  returned,  \* the value returned
  configFile,  \* fravia_menu.conf: whether it can be read, and its lines
  enginesFile, \* engines.txt: whether it can be read, and its lines
  engineCache, \* engines.ts: let engineCache
  requests,    \* argument requests of the instruction generators
  subjectMap,    \* executor.ts: let subjectMap, a Map in insertion order
  currentPhase,  \* executor.ts: let currentPhase; <<>> is undefined, <<n>> is n
  stopRequested, \* executor.ts: let stopRequested
  request,       \* the tool call received last: its name and arguments
  pending,       \* the handleExecute calls waiting at await executeQueries
  response,      \* the response sent last
  calls          \* the number of tool calls received

\* The files, the engine cache and the requests
loaderVars == <<configFile, enginesFile, engineCache, requests>>

\* The state of the server and its exchanges
serverVars ==
  <<subjectMap, currentPhase, stopRequested, request, pending, response, calls>>

vars ==
  <<config, op, pc, phase, topics, codes, engine, menu, queries, exclusions,
    returned, loaderVars, serverVars>>

(***************************************************************************)
(* Bounds of the inputs.                                                   *)
(***************************************************************************)
MaxTopics == 2
MaxCodes == 2
MaxExpand == 2

----------------------------------------------------------------------------
(* String primitives *)

Upper == <<"A", "B", "C", "D", "E", "F", "G", "H", "I", "J", "K", "L", "M",
           "N", "O", "P", "Q", "R", "S", "T", "U", "V", "W", "X", "Y", "Z">>
Lower == <<"a", "b", "c", "d", "e", "f", "g", "h", "i", "j", "k", "l", "m",
           "n", "o", "p", "q", "r", "s", "t", "u", "v", "w", "x", "y", "z">>
DigitChars == <<"0", "1", "2", "3", "4", "5", "6", "7", "8", "9">>

Range(s) == {s[i] : i \in DOMAIN s}

\* /[A-Z]/
IsUpper(c) == c \in Range(Upper)
\* /\d/
IsDigit(c) == c \in Range(DigitChars)

\* String.prototype.toLowerCase, one character
toLowerCaseChar(c) ==
  IF IsUpper(c) THEN Lower[CHOOSE i \in DOMAIN Upper : Upper[i] = c] ELSE c

\* String.prototype.toLowerCase
toLowerCase(s) == [i \in DOMAIN s |-> toLowerCaseChar(s[i])]

\* The text of a token sequence
RECURSIVE Flatten(_)
Flatten(s) == IF s = <<>> THEN "" ELSE Head(s) \o Flatten(Tail(s))

\* Array.prototype.join of TLA+ strings
RECURSIVE join(_, _)
join(parts, sep) ==
  IF parts = <<>> THEN ""
  ELSE IF Len(parts) = 1 THEN parts[1]
  ELSE parts[1] \o sep \o join(Tail(parts), sep)

\* The concatenation of a sequence of sequences
RECURSIVE Concat(_)
Concat(ss) == IF ss = <<>> THEN <<>> ELSE Head(ss) \o Concat(Tail(ss))

\* String(j) of a non-negative integer, as tokens
RECURSIVE Decimal(_)
Decimal(j) ==
  IF j < 10 THEN <<DigitChars[j + 1]>>
  ELSE Decimal(j \div 10) \o <<DigitChars[(j % 10) + 1]>>

----------------------------------------------------------------------------
(* Configuration tables *)

NOISE_FILTERS ==
  << [code |-> "s", name |-> "Social/Forum", default |-> "ON"],
     [code |-> "f", name |-> "Free Hosting/Blogs", default |-> "ON"],
     [code |-> "t", name |-> "Spam TLDs", default |-> "ON"],
     [code |-> "u", name |-> "Structural Cruft", default |-> "ON"],
     [code |-> "c", name |-> "Commercial/Affiliate", default |-> "ON"],
     [code |-> "l", name |-> "Clickbait/Listicles", default |-> "ON"],
     [code |-> "a", name |-> "Generic AI Slop", default |-> "ON"] >>

PHASES ==
  << [id |-> "S1", name |-> "Reconnaissance",
      purpose |-> "Map vocabulary, key actors, obvious authority and garbage"],
     [id |-> "S2", name |-> "Surface Scan",
      purpose |-> "Clean, high-signal overview of known information"],
     [id |-> "S3", name |-> "Deep Documents",
      purpose |-> "Extract PDFs, XLS, technical artifacts"],
     [id |-> "S4", name |-> "Structural Mapping",
      purpose |-> "APIs, subdomains, infrastructure discovery"],
     [id |-> "S5", name |-> "Filtered High-Signal",
      purpose |-> "Maximum filter strictness, authority sources only"],
     [id |-> "S6", name |-> "Negative-Space",
      purpose |-> "Failures, contradictions, what's missing"],
     [id |-> "S7", name |-> "Temporal Evolution",
      purpose |-> "Historical analysis, time-bounded searches"],
     [id |-> "S8", name |-> "Language/Regional Lateral",
      purpose |-> "Cross-language, regional engine exploration"] >>

PHASE_MENUS == <<
  \* 1
  [id |-> "S1", name |-> "Reconnaissance",
   purpose |-> "Map vocabulary, key actors, obvious authority and obvious garbage around the topic.",
   buildingBlocks |-> <<
       [code |-> "A", name |-> "Broad term+synonym sweep",
         engines |-> <<
             [engine |-> "google", templates |-> << <<"\"", "<", "0", ">", "\" OR \"", "<", "1", ">", "\" OR \"", "<", "2", ">", "\"">> >>],
             [engine |-> "bing", templates |-> << <<"\"", "<", "0", ">", "\" OR \"", "<", "1", ">", "\" OR \"", "<", "2", ">", "\"">> >>],
             [engine |-> "yandex", templates |-> << <<"\"", "<", "0", ">", "\" | \"", "<", "1", ">", "\" | \"", "<", "2", ">", "\"">> >>] >>],
       [code |-> "B", name |-> "Term + context word",
         engines |-> <<
             [engine |-> "google", templates |-> << <<"\"", "<", "0", ">", "\" \"overview\"">>,
                 <<"\"", "<", "0", ">", "\" \"definition\"">> >>],
             [engine |-> "bing", templates |-> << <<"\"", "<", "0", ">", "\" \"introduction\"">> >>],
             [engine |-> "yandex", templates |-> << <<"\"", "<", "0", ">", "\" & \"what is\"">> >>] >>],
       [code |-> "C", name |-> "Entity co-mention",
         engines |-> <<
             [engine |-> "google", templates |-> << <<"\"", "<", "0", ">", "\" AROUND(8) \"cloud\"">>,
                 <<"\"", "<", "0", ">", "\" AROUND(8) \"GPU\"">> >>],
             [engine |-> "bing", templates |-> << <<"\"", "<", "0", ">", "\" near:8 \"server\"">> >>],
             [engine |-> "yandex", templates |-> << <<"\"", "<", "0", ">", "\" /5 \"technology\"">> >>] >>] >>,
   precombinations |-> <<
       [code |-> "X", name |-> "Standard Recon Combo", expandsTo |-> <<"A", "B">>],
       [code |-> "Y", name |-> "Infra-tinged Recon", expandsTo |-> <<"A", "C">>] >>,
   engineNuances |-> <<
       [engine |-> "google", text |-> "G: Text & entity co-occurrence. AROUND(n) for concept binding. High SEO noise at reconnaissance."],
       [engine |-> "bing", text |-> "G: Alternate view of same space. May surface smaller or regional sites Google buries."],
       [engine |-> "yandex", text |-> "G: Early hint of regional (RU/CIS) coverage. Structural TLD distribution."] >>],
  \* 2
  [id |-> "S2", name |-> "Surface Scan",
   purpose |-> "Obtain a clean, higher-signal overview of what is known about the topic.",
   buildingBlocks |-> <<
       [code |-> "A", name |-> "Authority overview (edu/gov/org)",
         engines |-> <<
             [engine |-> "google", templates |-> << <<"\"", "<", "0", ">", "\" overview OR introduction (site:edu OR site:gov OR site:org)">> >>],
             [engine |-> "bing", templates |-> << <<"\"", "<", "0", ">", "\" (overview OR definition) (site:edu OR site:gov OR site:org)">> >>],
             [engine |-> "yandex", templates |-> << <<"\"", "<", "0", ">", "\" & (overview | introduction) (site:*.edu | site:*.gov)">> >>] >>],
       [code |-> "B", name |-> "Current state / recent developments",
         engines |-> <<
             [engine |-> "google", templates |-> << <<"\"", "<", "0", ">", "\" \"current state\" OR \"recent developments\" after:2023-01-01">> >>],
             [engine |-> "bing", templates |-> << <<"\"", "<", "0", ">", "\" \"recent\" OR \"latest\" language:en">> >>],
             [engine |-> "yandex", templates |-> << <<"\"", "<", "0", ">", "\" date:", ">", "2", "0", "2", "3", "0", "1", "0", "1">> >>] >>],
       [code |-> "C", name |-> "Practice & usage",
         engines |-> <<
             [engine |-> "google", templates |-> << <<"\"", "<", "0", ">", "\" \"developer guide\" OR \"getting started\"">> >>],
             [engine |-> "bing", templates |-> << <<"\"", "<", "0", ">", "\" \"documentation\" (site:docs.* OR site:developer.*)">> >>],
             [engine |-> "yandex", templates |-> << <<"\"", "<", "0", ">", "\" & (documentation | guide) domain:com">> >>] >>] >>,
   precombinations |-> <<
       [code |-> "X", name |-> "Balanced Surface Overview", expandsTo |-> <<"A", "C">>],
       [code |-> "Y", name |-> "Recency-Biased Overview", expandsTo |-> <<"A", "B">>] >>,
   engineNuances |-> <<
       [engine |-> "google", text |-> "G: Will tend to show polished explainers and official docs first once noise is suppressed."],
       [engine |-> "bing", text |-> "G: Good for finding Microsoft/industry whitepapers or niche docs that Google buries."],
       [engine |-> "yandex", text |-> "G: Useful to see whether there is a significant non-English body of overview material."] >>],
  \* 3
  [id |-> "S3", name |-> "Deep Documents",
   purpose |-> "Extract non-HTML artifacts: PDFs, spreadsheets, presentations, data files.",
   buildingBlocks |-> <<
       [code |-> "A", name |-> "PDF Extraction (All Engines)",
         engines |-> <<
             [engine |-> "google", templates |-> << <<"\"", "<", "0", ">", "\" filetype:pdf">> >>],
             [engine |-> "bing", templates |-> << <<"\"", "<", "0", ">", "\" contains:pdf">> >>],
             [engine |-> "yandex", templates |-> << <<"\"", "<", "0", ">", "\" mime:pdf">> >>] >>],
       [code |-> "B", name |-> "Data/Config Files (XLS/JSON)",
         engines |-> <<
             [engine |-> "google", templates |-> << <<"\"", "<", "0", ">", "\" (filetype:xls OR filetype:xlsx OR filetype:json)">> >>],
             [engine |-> "bing", templates |-> << <<"\"", "<", "0", ">", "\" contains:xlsx">> >>],
             [engine |-> "yandex", templates |-> << <<"\"", "<", "0", ">", "\" (mime:xls | mime:json)">> >>] >>],
       [code |-> "C", name |-> "Academic PDFs Only",
         engines |-> <<
             [engine |-> "google", templates |-> << <<"\"", "<", "0", ">", "\" filetype:pdf site:edu">> >>],
             [engine |-> "bing", templates |-> << <<"\"", "<", "0", ">", "\" contains:pdf site:edu">> >>],
             [engine |-> "yandex", templates |-> << <<"\"", "<", "0", ">", "\" mime:pdf site:*.edu">> >>] >>],
       [code |-> "D", name |-> "Presentations",
         engines |-> <<
             [engine |-> "google", templates |-> << <<"\"", "<", "0", ">", "\" (filetype:ppt OR filetype:pptx)">> >>],
             [engine |-> "bing", templates |-> << <<"\"", "<", "0", ">", "\" contains:pptx">> >>],
             [engine |-> "yandex", templates |-> << <<"\"", "<", "0", ">", "\" mime:ppt">> >>] >>] >>,
   precombinations |-> <<
       [code |-> "X", name |-> "Full Document Sweep", expandsTo |-> <<"A", "B", "D">>],
       [code |-> "Y", name |-> "Academic Focus", expandsTo |-> <<"A", "C">>] >>,
   engineNuances |-> <<
       [engine |-> "google", text |-> "G: Text inside PDF searchable. filetype: operator."],
       [engine |-> "bing", text |-> "G: contains: finds pages hosting files."],
       [engine |-> "yandex", text |-> "G: mime: for raw file type matching."] >>],
  \* 4
  [id |-> "S4", name |-> "Structural Mapping",
   purpose |-> "Map digital layout: APIs, subdomains, infrastructure.",
   buildingBlocks |-> <<
       [code |-> "A", name |-> "Subdomain Map",
         engines |-> <<
             [engine |-> "yandex", templates |-> << <<"rhost:com.", "<", "0", ">", ".*">> >>],
             [engine |-> "bing", templates |-> << <<"site:", "<", "0", ">">> >>],
             [engine |-> "google", templates |-> << <<"site:*.", "<", "0", ">">> >>] >>],
       [code |-> "B", name |-> "API/Docs Discovery",
         engines |-> <<
             [engine |-> "google", templates |-> << <<"site:", "<", "0", ">", " inurl:api OR inurl:docs">> >>],
             [engine |-> "bing", templates |-> << <<"site:", "<", "0", ">", " inurl:api">> >>],
             [engine |-> "yandex", templates |-> << <<"site:", "<", "0", ">", " & (api | docs)">> >>] >>],
       [code |-> "C", name |-> "Directory Listings",
         engines |-> <<
             [engine |-> "google", templates |-> << <<"intitle:\"index of\" \"", "<", "0", ">", "\"">> >>],
             [engine |-> "bing", templates |-> << <<"intitle:\"index of\" \"", "<", "0", ">", "\"">> >>],
             [engine |-> "yandex", templates |-> << <<"title:\"index of\" \"", "<", "0", ">", "\"">> >>] >>] >>,
   precombinations |-> <<
       [code |-> "X", name |-> "Infrastructure Sweep", expandsTo |-> <<"A", "B">>] >>,
   engineNuances |-> <<
       [engine |-> "bing", text |-> "G: ip: finds neighbors on same IP."],
       [engine |-> "yandex", text |-> "G: rhost: reverse host for subdomain discovery."],
       [engine |-> "google", text |-> "G: site:*.domain for wildcard subdomain."] >>],
  \* 5
  [id |-> "S5", name |-> "Filtered High-Signal",
   purpose |-> "Maximum filter strictness, authority sources only.",
   buildingBlocks |-> <<
       [code |-> "A", name |-> "Academic Authority Lock",
         engines |-> <<
             [engine |-> "google", templates |-> << <<"\"", "<", "0", ">", "\" (site:edu OR site:ac.* OR site:arxiv.org OR site:researchgate.net)">> >>],
             [engine |-> "bing", templates |-> << <<"\"", "<", "0", ">", "\" (site:edu OR site:ac.*)">> >>],
             [engine |-> "yandex", templates |-> << <<"\"", "<", "0", ">", "\" (site:*.edu | site:*.ac.*)">> >>] >>],
       [code |-> "B", name |-> "Government Authority Lock",
         engines |-> <<
             [engine |-> "google", templates |-> << <<"\"", "<", "0", ">", "\" (site:gov OR site:gov.* OR site:mil)">> >>],
             [engine |-> "bing", templates |-> << <<"\"", "<", "0", ">", "\" (site:gov OR site:gov.*)">> >>],
             [engine |-> "yandex", templates |-> << <<"\"", "<", "0", ">", "\" (site:*.gov | site:*.mil)">> >>] >>],
       [code |-> "C", name |-> "Technical Authority Lock",
         engines |-> <<
             [engine |-> "google", templates |-> << <<"\"", "<", "0", ">", "\" (site:github.com OR site:stackoverflow.com OR site:developer.*)">> >>],
             [engine |-> "bing", templates |-> << <<"\"", "<", "0", ">", "\" (site:github.com OR site:stackoverflow.com)">> >>],
             [engine |-> "yandex", templates |-> << <<"\"", "<", "0", ">", "\" (site:github.com | site:stackoverflow.com)">> >>] >>] >>,
   precombinations |-> <<
       [code |-> "X", name |-> "All Authority", expandsTo |-> <<"A", "B", "C">>] >>,
   engineNuances |-> <<
       [engine |-> "google", text |-> "G: Combine with date filters for authoritative recent."],
       [engine |-> "bing", text |-> "G: prefer: boosts but doesn't exclude."],
       [engine |-> "yandex", text |-> "G: domain: for TLD-only filtering."] >>],
  \* 6
  [id |-> "S6", name |-> "Negative-Space",
   purpose |-> "Find failures, contradictions, criticism, what is missing.",
   buildingBlocks |-> <<
       [code |-> "A", name |-> "Failure/Problem Search",
         engines |-> <<
             [engine |-> "google", templates |-> << <<"\"", "<", "0", ">", "\" (failed OR failure OR problem OR issue OR bug)">> >>],
             [engine |-> "bing", templates |-> << <<"\"", "<", "0", ">", "\" (problem OR issue OR failure)">> >>],
             [engine |-> "yandex", templates |-> << <<"\"", "<", "0", ">", "\" & (problem | failure | bug)">> >>] >>],
       [code |-> "B", name |-> "Criticism/Controversy",
         engines |-> <<
             [engine |-> "google", templates |-> << <<"\"", "<", "0", ">", "\" (criticism OR controversy OR debate OR questioned)">> >>],
             [engine |-> "bing", templates |-> << <<"\"", "<", "0", ">", "\" (criticism OR controversy)">> >>],
             [engine |-> "yandex", templates |-> << <<"\"", "<", "0", ">", "\" & (criticism | controversy)">> >>] >>],
       [code |-> "C", name |-> "Exclude Dominant Sources",
         engines |-> <<
             [engine |-> "google", templates |-> << <<"\"", "<", "0", ">", "\" -site:wikipedia.org -site:britannica.com -site:medium.com">> >>],
             [engine |-> "bing", templates |-> << <<"\"", "<", "0", ">", "\" NOT site:wikipedia.org NOT site:medium.com">> >>],
             [engine |-> "yandex", templates |-> << <<"\"", "<", "0", ">", "\" -site:wikipedia.org -site:medium.com">> >>] >>] >>,
   precombinations |-> <<
       [code |-> "X", name |-> "Full Negative Space", expandsTo |-> <<"A", "B", "C">>] >>,
   engineNuances |-> <<
       [engine |-> "google", text |-> "G: AROUND(n) to find terms near 'problem' or 'failure'."],
       [engine |-> "bing", text |-> "G: NOT for exclusion, near: for proximity."],
       [engine |-> "yandex", text |-> "G: - prefix for exclusion."] >>],
  \* 7
  [id |-> "S7", name |-> "Temporal Evolution",
   purpose |-> "Historical analysis, time-bounded searches, evolution of topic.",
   buildingBlocks |-> <<
       [code |-> "A", name |-> "Recent Only (Last Year)",
         engines |-> <<
             [engine |-> "google", templates |-> << <<"\"", "<", "0", ">", "\" after:2024-01-01">> >>],
             [engine |-> "bing", templates |-> << <<"\"", "<", "0", ">", "\"">> >>],
             [engine |-> "yandex", templates |-> << <<"\"", "<", "0", ">", "\" date:", ">", "2", "0", "2", "4", "0", "1", "0", "1">> >>] >>],
       [code |-> "B", name |-> "Historical (Pre-2020)",
         engines |-> <<
             [engine |-> "google", templates |-> << <<"\"", "<", "0", ">", "\" before:2020-01-01">> >>],
             [engine |-> "bing", templates |-> << <<"\"", "<", "0", ">", "\"">> >>],
             [engine |-> "yandex", templates |-> << <<"\"", "<", "0", ">", "\" date:", "<", "2", "0", "2", "0", "0", "1", "0", "1">> >>] >>],
       [code |-> "C", name |-> "Wayback Machine",
         engines |-> <<
             [engine |-> "archive", templates |-> << <<"<", "0", ">">> >>],
             [engine |-> "google", templates |-> << <<"site:web.archive.org \"", "<", "0", ">", "\"">> >>] >>] >>,
   precombinations |-> <<
       [code |-> "X", name |-> "Time Contrast", expandsTo |-> <<"A", "B">>] >>,
   engineNuances |-> <<
       [engine |-> "google", text |-> "G: before:/after: for date filtering."],
       [engine |-> "bing", text |-> "G: Use freshness parameter in API."],
       [engine |-> "yandex", text |-> "G: date: with comparison operators."],
       [engine |-> "archive", text |-> "G: CDX API for programmatic access."] >>],
  \* 8
  [id |-> "S8", name |-> "Language/Regional Lateral",
   purpose |-> "Cross-language exploration, regional engines, non-English sources.",
   buildingBlocks |-> <<
       [code |-> "A", name |-> "Russian/CIS Sources",
         engines |-> <<
             [engine |-> "yandex", templates |-> << <<"\"", "<", "0", ">", "\" lang:ru">>,
                 <<"\"", "<", "0", ">", "\" domain:ru">> >>],
             [engine |-> "google", templates |-> << <<"\"", "<", "0", ">", "\" site:ru">> >>] >>],
       [code |-> "B", name |-> "Chinese Sources",
         engines |-> <<
             [engine |-> "baidu", templates |-> << <<"\"", "<", "0", ">", "\"">> >>],
             [engine |-> "google", templates |-> << <<"\"", "<", "0", ">", "\" site:cn">> >>] >>],
       [code |-> "C", name |-> "European Sources",
         engines |-> <<
             [engine |-> "google", templates |-> << <<"\"", "<", "0", ">", "\" (site:de OR site:fr OR site:es OR site:it)">> >>],
             [engine |-> "yandex", templates |-> << <<"\"", "<", "0", ">", "\" (domain:de | domain:fr | domain:es)">> >>] >>],
       [code |-> "D", name |-> "Academic Cross-Language",
         engines |-> <<
             [engine |-> "google", templates |-> << <<"\"", "<", "0", ">", "\" (site:edu.* OR site:ac.* OR site:uni-*)">> >>],
             [engine |-> "scholar", templates |-> << <<"\"", "<", "0", ">", "\"">> >>] >>] >>,
   precombinations |-> <<
       [code |-> "X", name |-> "Global Sweep", expandsTo |-> <<"A", "B", "C">>],
       [code |-> "Y", name |-> "Academic Global", expandsTo |-> <<"A", "D">>] >>,
   engineNuances |-> <<
       [engine |-> "yandex", text |-> "G: Strongest for Russian/CIS, lang: and domain: operators."],
       [engine |-> "baidu", text |-> "G: Required for Chinese sources, different operator syntax."],
       [engine |-> "google", text |-> "G: site:TLD for regional filtering."],
       [engine |-> "scholar", text |-> "G: Cross-language academic search."] >>] >>

getDefaultConfig ==
  [version |-> "5.0",
   filters |-> <<
     [num |-> "1", code |-> "s", name |-> "SOCIAL",
      google |-> "-site:pinterest.* -site:twitter.com -site:facebook.com -site:reddit.com -site:quora.com",
      bing |-> "NOT site:pinterest.com NOT site:twitter.com NOT site:facebook.com NOT site:reddit.com",
      yandex |-> "-site:pinterest.com -site:twitter.com -site:facebook.com -site:reddit.com",
      ddg |-> "-site:pinterest.com -site:twitter.com -site:facebook.com -site:reddit.com"],
     [num |-> "2", code |-> "f", name |-> "FREE_HOSTING",
      google |-> "-site:blogspot.* -site:*.wixsite.com -site:weebly.com -site:tumblr.com -site:*.wordpress.com -site:sites.google.com",
      bing |-> "NOT site:blogspot.com NOT url:wixsite NOT url:weebly NOT site:tumblr.com",
      yandex |-> "-rhost:com.blogspot.* -rhost:com.wixsite.* -rhost:com.weebly.* -site:tumblr.com",
      ddg |-> "-blogspot -wixsite -weebly -tumblr"],
     [num |-> "3", code |-> "t", name |-> "SPAM_TLDS",
      google |-> "-site:.info -site:.xyz -site:.top -site:.click -site:.online -site:.site -site:.space -site:.icu -site:.buzz",
      bing |-> "NOT site:.info NOT site:.xyz NOT site:.top NOT site:.click NOT site:.online",
      yandex |-> "-domain:info -domain:xyz -domain:top -domain:click -domain:online",
      ddg |-> "-site:.info -site:.xyz -site:.top -site:.click -site:.online"],
     [num |-> "4", code |-> "u", name |-> "STRUCTURAL_CRUFT",
      google |-> "-inurl:/tag/ -inurl:/category/ -inurl:/page/ -inurl:/archive/ -inurl:?p= -inurl:?page=",
      bing |-> "NOT url:tag NOT url:category NOT url:page NOT url:archive",
      yandex |-> "-inurl:/tag/ -inurl:/category/ -inurl:/page/",
      ddg |-> "-inurl:/tag/ -inurl:/category/ -inurl:/page/"],
     [num |-> "5", code |-> "c", name |-> "COMMERCIAL",
      google |-> "-\"affiliate\" -\"we may earn\" -\"as an amazon associate\" -inurl:affiliate -inurl:sponsored",
      bing |-> "NOT \"affiliate\" NOT \"we may earn\" NOT inbody:\"taboola\" NOT inbody:\"outbrain\"",
      yandex |-> "-\"affiliate\" -\"we may earn\"",
      ddg |-> "-\"affiliate\" -\"sponsored\" -\"commission\""],
     [num |-> "6", code |-> "l", name |-> "LISTICLES",
      google |-> "-intitle:\"top 10\" -intitle:\"top 20\" -intitle:\"best of\" -intitle:\"ultimate guide\"",
      bing |-> "NOT intitle:\"top 10\" NOT intitle:\"best of\"",
      yandex |-> "-title:\"top 10\" -title:\"best of\"",
      ddg |-> "-\"top 10\" -\"best of\" -\"ultimate guide\""],
     [num |-> "7", code |-> "a", name |-> "AI_SLOP",
      google |-> "-\"in this comprehensive guide\" -\"let's dive in\" -\"without further ado\" -\"in today's fast-paced world\"",
      bing |-> "NOT \"let's dive in\" NOT \"comprehensive guide\"",
      yandex |-> "-\"let's dive in\" -\"comprehensive guide\"",
      ddg |-> "-\"let's dive in\" -\"without further ado\""] >>,
   phases |-> <<>>]
----------------------------------------------------------------------------
(* Hygiene resolver: getActiveFilters *)

\* const codeToNumber: Record<string, string>
\* Mutant: the table is one letter off
codeToNumberShifted ==
  [c \in {"s", "f", "t", "u", "c", "l", "a"} |->
     CASE c = "s" -> "2" [] c = "f" -> "3" [] c = "t" -> "4" [] c = "u" -> "5"
       [] c = "c" -> "6" [] c = "l" -> "7" [] c = "a" -> "1"]

codeToNumber ==
  [c \in {"s", "f", "t", "u", "c", "l", "a"} |->
     CASE c = "s" -> "1" [] c = "f" -> "2" [] c = "t" -> "3" [] c = "u" -> "4"
       [] c = "c" -> "5" [] c = "l" -> "6" [] c = "a" -> "7"]

\* Mutant: relax letters count only before the first block letter
relaxedCodesBeforeBlocks(cs) ==
  LET uppers == {i \in DOMAIN cs : IsUpper(cs[i])}
      first == IF uppers = {} THEN Len(cs) + 1
               ELSE CHOOSE i \in uppers : \A k \in uppers : i <= k
  IN  {codeToNumber[c] :
         c \in Range(toLowerCase(SubSeq(cs, 1, first - 1))) \cap DOMAIN codeToNumber}

\* Mutant: the letters of the codes of the call before stay relaxed
relaxedCodesKept(cs) ==
  {codeToNumber[c] : c \in Range(toLowerCase(cs \o codes)) \cap DOMAIN codeToNumber}

\* relaxedCodes after the loop over codes.toLowerCase()
relaxedCodes(cs) ==
  {codeToNumber[c] : c \in Range(toLowerCase(cs)) \cap DOMAIN codeToNumber}

validEngines == {"google", "bing", "yandex", "ddg"}

\* Mutant: the engine name is matched as given
targetEngineCaseSensitive(eng) ==
  LET engineKey == Flatten(eng)
  IN  IF engineKey \in validEngines THEN engineKey ELSE "google"

\* targetEngine: the lower-cased engine name if it is a valid one, else google
targetEngine(eng) ==
  LET engineKey == Flatten(toLowerCase(eng))
  IN  IF engineKey \in validEngines THEN engineKey ELSE "google"

\* Mutant: the clauses of the relaxed filters are the ones kept
exclusionsOfRelaxed(cs, cfg, eng) ==
  LET relaxed == relaxedCodes(cs)
      target == targetEngine(eng)
      Active(filter) == filter.num \in relaxed /\ filter[target] # ""
      kept == SelectSeq(cfg.filters, Active)
  IN  [i \in DOMAIN kept |-> kept[i][target]]

\* The array exclusions: the non-empty clauses, in the dialect of the target
\* engine, of the filters that are not relaxed, in the order of config.filters
exclusionsOf(cs, cfg, eng) ==
  LET relaxed == relaxedCodes(cs)
      target == targetEngine(eng)
      Active(filter) == filter.num \notin relaxed /\ filter[target] # ""
      kept == SelectSeq(cfg.filters, Active)
  IN  [i \in DOMAIN kept |-> kept[i][target]]

getActiveFilters(cs, cfg, eng) == join(exclusionsOf(cs, cfg, eng), " ")

----------------------------------------------------------------------------
(* Phase menu catalog: getPhaseMenu *)

\* `${phase}` of an integer
NumberString(n) ==
  IF n < 0 THEN "-" \o Flatten(Decimal(0 - n)) ELSE Flatten(Decimal(n))

\* PHASES[phase - 1]?.name || "Unknown" (PHASES is indexed from 1 here)
phaseNameOr(p, default) ==
  IF p \in DOMAIN PHASES /\ PHASES[p].name # "" THEN PHASES[p].name ELSE default

\* PHASES[phase - 1]?.purpose || "Not defined"
phasePurposeOr(p, default) ==
  IF p \in DOMAIN PHASES /\ PHASES[p].purpose # "" THEN PHASES[p].purpose
  ELSE default

\* The minimal menu returned for a phase without an entry in PHASE_MENUS
minimalMenu(p) ==
  [phase |-> p,
   id |-> "S" \o NumberString(p),
   name |-> phaseNameOr(p, "Unknown"),
   purpose |-> phasePurposeOr(p, "Not defined"),
   noiseFilters |-> NOISE_FILTERS,
   buildingBlocks |-> <<>>,
   precombinations |-> <<>>,
   engineNuances |-> <<>>]

\* Mutant: a phase without a menu gets the menu of the first phase
getPhaseMenuOrFirst(p) ==
  LET phaseData == IF p \in DOMAIN PHASE_MENUS THEN PHASE_MENUS[p] ELSE PHASE_MENUS[1]
  IN  [phase |-> p,
       id |-> phaseData.id,
       name |-> phaseData.name,
       purpose |-> phaseData.purpose,
       noiseFilters |-> NOISE_FILTERS,
       buildingBlocks |-> phaseData.buildingBlocks,
       precombinations |-> phaseData.precombinations,
       engineNuances |-> phaseData.engineNuances]

\* Mutant: PHASE_MENUS is read at phase - 1, as PHASES is
getPhaseMenuZeroBased(p) ==
  IF p - 1 \in DOMAIN PHASE_MENUS
  THEN LET phaseData == PHASE_MENUS[p - 1]
       IN  [phase |-> p,
            id |-> phaseData.id,
            name |-> phaseData.name,
            purpose |-> phaseData.purpose,
            noiseFilters |-> NOISE_FILTERS,
            buildingBlocks |-> phaseData.buildingBlocks,
            precombinations |-> phaseData.precombinations,
            engineNuances |-> phaseData.engineNuances]
  ELSE minimalMenu(p)

\* Mutant: the menu is returned without its building blocks
getPhaseMenuWithoutBlocks(p) ==
  IF p \in DOMAIN PHASE_MENUS
  THEN [getPhaseMenuZeroBased(p + 1) EXCEPT !.phase = p, !.buildingBlocks = <<>>]
  ELSE minimalMenu(p)

getPhaseMenu(p) ==
  IF p \in DOMAIN PHASE_MENUS
  THEN LET phaseData == PHASE_MENUS[p]
       IN  [phase |-> p,
            id |-> phaseData.id,
            name |-> phaseData.name,
            purpose |-> phaseData.purpose,
            noiseFilters |-> NOISE_FILTERS,
            buildingBlocks |-> phaseData.buildingBlocks,
            precombinations |-> phaseData.precombinations,
            engineNuances |-> phaseData.engineNuances]
  ELSE minimalMenu(p)

----------------------------------------------------------------------------
(* Query builder: buildQueries *)

\* codes.replace(/[^A-Z]/g, "").split("")
blockCodesOf(cs) == SelectSeq(cs, IsUpper)

\* Mutant: adding an element again moves it to the end
setAddLast(set, x) ==
  LET Other(y) == y # x IN Append(SelectSeq(set, Other), x)

\* Set.prototype.add on a Set kept in insertion order
setAdd(set, x) == IF x \in Range(set) THEN set ELSE Append(set, x)

RECURSIVE setAddAll(_, _)
setAddAll(set, xs) ==
  IF xs = <<>> THEN set ELSE setAddAll(setAdd(set, Head(xs)), Tail(xs))

\* Mutant: no letter is found among the precombinations
precombosNone(m, code) == SubSeq(m.precombinations, 1, 0)

\* Array.prototype.find: the elements that match, first one first
precombosWith(m, code) ==
  LET Is(p) == p.code = code IN SelectSeq(m.precombinations, Is)
blocksWith(m, code) ==
  LET Is(b) == b.code = code IN SelectSeq(m.buildingBlocks, Is)

\* Mutant: a constituent that is a precombination letter is expanded in turn
RECURSIVE expandIntoDeep(_, _, _)
expandIntoDeep(set, m, blockCodes) ==
  IF blockCodes = <<>> THEN set
  ELSE LET code == Head(blockCodes)
           precombo == precombosWith(m, code)
           Deep(c) == IF precombosWith(m, c) # <<>>
                        THEN precombosWith(m, c)[1].expandsTo ELSE <<c>>
       IN  expandIntoDeep(IF precombo # <<>>
                            THEN setAddAll(set, Concat([k \in DOMAIN precombo[1].expandsTo |->
                                                          Deep(precombo[1].expandsTo[k])]))
                            ELSE setAdd(set, code),
                          m, Tail(blockCodes))

\* The loop that expands precombinations, from the Set built so far
RECURSIVE expandInto(_, _, _)
expandInto(set, m, blockCodes) ==
  IF blockCodes = <<>> THEN set
  ELSE LET code == Head(blockCodes)
           precombo == precombosWith(m, code)
       IN  expandInto(IF precombo # <<>>
                        THEN setAddAll(set, precombo[1].expandsTo)
                        ELSE setAdd(set, code),
                      m, Tail(blockCodes))

\* expandedCodes, in insertion order
expandedCodesOf(m, cs) == expandInto(<<>>, m, blockCodesOf(cs))

\* The length of the match of a placeholder pattern in s at position i, 0 if
\* none.  j >= 0: the pattern new RegExp(`<${j}>`); j = -1: /<\d+>/
digitRun(s, i) ==
  IF i > Len(s) THEN 0
  ELSE LET stops == {k \in i..Len(s) : ~IsDigit(s[k])}
       IN  IF stops = {} THEN Len(s) - i + 1
           ELSE (CHOOSE k \in stops : \A l \in stops : k <= l) - i

matchLength(s, i, j) ==
  IF s[i] # "<" THEN 0
  ELSE IF j >= 0
    THEN LET pat == <<"<">> \o Decimal(j) \o <<">">>
         IN  IF i + Len(pat) - 1 <= Len(s) /\ SubSeq(s, i, i + Len(pat) - 1) = pat
               THEN Len(pat) ELSE 0
    ELSE LET n == digitRun(s, i + 1)
         IN  IF n >= 1 /\ i + n + 1 <= Len(s) /\ s[i + n + 1] = ">"
               THEN n + 2 ELSE 0

\* The replacement text of one match (GetSubstitution): in the replacement
\* string "$$" is "$", "$&" the match and "$'" the text after the match; the
\* patterns have no capture group, so a "$" before anything else is literal
\* ("$" and a backquote, the text before the match, is left out: no topic
\* drawn here holds a backquote)
RECURSIVE substitution(_, _, _, _)
substitution(repl, s, i, len) ==
  IF repl = <<>> THEN <<>>
  ELSE IF Head(repl) = "$" /\ Len(repl) >= 2 /\ repl[2] \in {"$", "&", "'"}
    THEN (CASE repl[2] = "$" -> <<"$">>
            [] repl[2] = "&" -> SubSeq(s, i, i + len - 1)
            [] repl[2] = "'" -> SubSeq(s, i + len, Len(s)))
         \o substitution(Tail(Tail(repl)), s, i, len)
    ELSE <<Head(repl)>> \o substitution(Tail(repl), s, i, len)

\* String.prototype.replace with a global pattern, from position i on
RECURSIVE replaceFrom(_, _, _, _)
replaceFrom(s, i, j, repl) ==
  IF i > Len(s) THEN <<>>
  ELSE LET len == matchLength(s, i, j)
       IN  IF len > 0
             THEN substitution(repl, s, i, len) \o replaceFrom(s, i + len, j, repl)
             ELSE <<s[i]>> \o replaceFrom(s, i + 1, j, repl)

replaceAll(s, j, repl) == replaceFrom(s, 1, j, repl)

\* topics.forEach((topic, j) => query = query.replace(<j>, topic)), from j on
RECURSIVE replaceTopics(_, _, _)
replaceTopics(query, tps, j) ==
  IF j >= Len(tps) THEN query
  ELSE replaceTopics(replaceAll(query, j, tps[j + 1]), tps, j + 1)

\* query.replace(/<\d+>/g, topics[0])
replaceUnreplaced(query, tps) == replaceAll(query, -1, tps[1])

\* The body of the loop over the topics: the query of one template
\* Mutant: the space is appended whether or not a clause follows
queryOfWithSpace(template, tps, hygieneString) ==
  Flatten(replaceUnreplaced(replaceTopics(template, tps, 0), tps)) \o " " \o hygieneString

queryOf(template, tps, hygieneString) ==
  LET query == Flatten(replaceUnreplaced(replaceTopics(template, tps, 0), tps))
  IN  IF hygieneString # "" THEN query \o " " \o hygieneString ELSE query

\* Mutant: the query pushed for the topic index i starts the topics at i
engineQueriesPerTopic(p, tps, cs, cfg, code, entry) ==
  LET hygieneString == getActiveFilters(cs, cfg, <<entry.engine>>)
      From(i) == SubSeq(tps, i, Len(tps)) \o SubSeq(tps, 1, i - 1)
      templateQueries(template) ==
        [i \in 1..Len(tps) |->
           [engine |-> entry.engine,
            query |-> queryOf(template, From(i), hygieneString),
            phase |-> p,
            blockCode |-> code]]
  IN  Concat([t \in DOMAIN entry.templates |-> templateQueries(entry.templates[t])])

\* The queries pushed for one engine of a block
engineQueries(p, tps, cs, cfg, code, entry) ==
  LET hygieneString == getActiveFilters(cs, cfg, <<entry.engine>>)
      \* the loop over i pushes the same query once per topic: its body
      \* does not read i
      templateQueries(template) ==
        LET pushed == [engine |-> entry.engine,
                       query |-> queryOf(template, tps, hygieneString),
                       phase |-> p,
                       blockCode |-> code]
        IN  [i \in 1..Len(tps) |-> pushed]
  IN  Concat([t \in DOMAIN entry.templates |-> templateQueries(entry.templates[t])])

\* The queries pushed for one expanded code
codeQueries(m, p, tps, cs, cfg, code) ==
  LET block == blocksWith(m, code)
  IN  IF block = <<>> THEN <<>>
      ELSE Concat([e \in DOMAIN block[1].engines |->
                     engineQueries(p, tps, cs, cfg, code, block[1].engines[e])])

\* queries, when the loop over the expanded codes ends
pushedQueries(m, p, tps, cs, cfg) ==
  LET expandedCodes == expandedCodesOf(m, cs)
  IN  Concat([c \in DOMAIN expandedCodes |->
                codeQueries(m, p, tps, cs, cfg, expandedCodes[c])])

\* Mutant: the key is the engine alone
dedupKeyOfEngine(q) == q.engine \o ":"

\* Mutant: the key tells the blocks apart
dedupKeyWithBlock(q) == q.blockCode \o ":" \o q.engine \o ":" \o q.query

\* `${q.engine}:${q.query}`
dedupKey(q) == q.engine \o ":" \o q.query

\* queries.filter(q => ...) with the Set seen
RECURSIVE filterSeen(_, _)
filterSeen(qs, seen) ==
  IF qs = <<>> THEN <<>>
  ELSE LET key == dedupKey(Head(qs))
       IN  IF key \in seen THEN filterSeen(Tail(qs), seen)
           ELSE <<Head(qs)>> \o filterSeen(Tail(qs), seen \cup {key})

deduplicate(qs) == filterSeen(qs, {})

buildQueries(p, tps, cs, cfg) ==
  deduplicate(pushedQueries(getPhaseMenu(p), p, tps, cs, cfg))

----------------------------------------------------------------------------
(* Configuration loader: loadConfig, parseConfig *)

\* The first position of a token in a sequence, 0 if none
indexOf(ts, t) ==
  IF t \in Range(ts) THEN CHOOSE i \in DOMAIN ts : ts[i] = t /\ \A j \in 1..(i - 1) : ts[j] # t
  ELSE 0

\* value.replace(/-site:/g, "NOT site:").replace(/-inurl:/g, "NOT url:")
\*      .replace(/-intitle:/g, "NOT intitle:").replace(/-"/g, "NOT \"")
\* Each of "-site:", "-inurl:", "-intitle:" and "-\"" is a token of its own
bingValue(value) ==
  [i \in DOMAIN value |->
     CASE value[i] = "-site:" -> "NOT site:"
       [] value[i] = "-inurl:" -> "NOT url:"
       [] value[i] = "-intitle:" -> "NOT intitle:"
       [] value[i] = "-\"" -> "NOT \""
       [] OTHER -> value[i]]

\* A Map keyed by the field key, kept in insertion order
keyedGet(map, key) == LET Is(e) == e.key = key IN SelectSeq(map, Is)
keyedSet(map, value) ==
  IF keyedGet(map, value.key) = <<>> THEN Append(map, value)
  ELSE [i \in DOMAIN map |-> IF map[i].key = value.key THEN value ELSE map[i]]

\* config.filters.set(code, {...}); the field num of a filter is its key
filtersSet(filters, value) ==
  LET Is(f) == f.num = value.num
  IN  IF SelectSeq(filters, Is) = <<>> THEN Append(filters, value)
      ELSE [i \in DOMAIN filters |-> IF filters[i].num = value.num THEN value ELSE filters[i]]

\* /^S\d+$/ on a section name: "S" and every digit are tokens of their own
isPhaseSection(name) ==
  /\ Len(name) >= 2
  /\ name[1] = "S"
  /\ \A i \in 2..Len(name) : IsDigit(name[i])

\* One key-value pair in a section of a phase: currentPhase after it
phaseWith(ph, key, value) ==
  LET first == Head(key)
      last == key[Len(key)]
      optCode == Flatten(SubSeq(key, 2, Len(key) - 1))
      existing == IF keyedGet(ph.options, optCode) # <<>>
                    THEN keyedGet(ph.options, optCode)[1]
                    ELSE [key |-> optCode, code |-> optCode, description |-> "", value |-> ""]
  IN  IF key = <<"desc">> THEN [ph EXCEPT !.description = Flatten(value)]
      ELSE IF key = <<"nuance">> THEN [ph EXCEPT !.nuance = Flatten(value)]
      ELSE IF Len(key) >= 2 /\ first = "option_" /\ last = "_desc"
        THEN [ph EXCEPT !.options =
                keyedSet(ph.options, [existing EXCEPT !.description = Flatten(value)])]
      ELSE IF Len(key) >= 2 /\ first = "option_" /\ last = "_val"
        THEN [ph EXCEPT !.options =
                keyedSet(ph.options, [existing EXCEPT !.value = Flatten(value)])]
      ELSE ph

\* The loop of parseConfig over the lines.  A line is given trimmed: kind
\* "skip" is an empty line, a comment or a line without "=", kind "section"
\* a header with its name, kind "pair" a key and a value, both trimmed.  The
\* object currentPhase is the entry of config.phases with the key of the
\* current section, when that is the section of a phase
RECURSIVE parseLines(_, _, _)
parseLines(cfg, currentSection, lines) ==
  IF lines = <<>> THEN cfg
  ELSE LET line == Head(lines)
           rest == Tail(lines)
       IN  CASE line.kind = "skip" -> parseLines(cfg, currentSection, rest)
             [] line.kind = "section" ->
                  IF isPhaseSection(line.name)
                    THEN parseLines(
                           [cfg EXCEPT !.phases =
                              keyedSet(cfg.phases,
                                       [key |-> Flatten(line.name), description |-> "",
                                        nuance |-> "", options |-> <<>>])],
                           line.name, rest)
                    ELSE parseLines(cfg, line.name, rest)
             [] line.kind = "pair" ->
                  IF currentSection = <<"meta">>
                    THEN parseLines(IF line.key = <<"version">>
                                      THEN [cfg EXCEPT !.version = Flatten(line.value)]
                                      ELSE cfg,
                                    currentSection, rest)
                  ELSE IF currentSection = <<"filters">>
                    THEN LET at == indexOf(line.key, "_")
                             code == Flatten(SubSeq(line.key, 1, at - 1))
                             name == Flatten(SubSeq(line.key, at + 1, Len(line.key)))
                         IN  parseLines(
                               IF at > 0
                                 THEN [cfg EXCEPT !.filters =
                                         filtersSet(cfg.filters,
                                                    [num |-> code, code |-> code, name |-> name,
                                                     google |-> Flatten(line.value),
                                                     bing |-> Flatten(bingValue(line.value)),
                                                     yandex |-> Flatten(line.value),
                                                     ddg |-> Flatten(line.value)])]
                                 ELSE cfg,
                               currentSection, rest)
                  ELSE IF isPhaseSection(currentSection)
                    THEN LET k == Flatten(currentSection)
                         IN  parseLines(
                               [cfg EXCEPT !.phases =
                                  [i \in DOMAIN cfg.phases |->
                                     IF cfg.phases[i].key = k
                                       THEN phaseWith(cfg.phases[i], line.key, line.value)
                                       ELSE cfg.phases[i]]],
                               currentSection, rest)
                  ELSE parseLines(cfg, currentSection, rest)

parseConfig(lines) ==
  parseLines([version |-> "5.0", filters |-> <<>>, phases |-> <<>>], <<>>, lines)

\* Mutant: a file that cannot be read is parsed as an empty one
loadConfigOfNothing(file) ==
  IF ~file.readable THEN parseConfig(<<>>) ELSE parseConfig(file.lines)

loadConfig(file) ==
  IF ~file.readable THEN getDefaultConfig ELSE parseConfig(file.lines)

----------------------------------------------------------------------------
(* Engine registry and instruction generators: engines.ts *)

\* A Map kept in insertion order, as the sequence of its values; the key of
\* an engine is its id
mapGet(map, key) == LET Is(e) == e.id = key IN SelectSeq(map, Is)
mapSet(map, value) ==
  IF mapGet(map, value.id) = <<>> THEN Append(map, value)
  ELSE [i \in DOMAIN map |-> IF map[i].id = value.id THEN value ELSE map[i]]

getDefaultEngines ==
  <<[id |-> "google", type |-> "api", name |-> "Google Custom Search",
     baseUrl |-> "https://www.googleapis.com/customsearch/v1",
     selectors |-> [result |-> "items", title |-> "title", url |-> "link",
                    snippet |-> "snippet"]],
    [id |-> "bing", type |-> "api", name |-> "Bing Search",
     baseUrl |-> "https://api.bing.microsoft.com/v7.0/search",
     selectors |-> [result |-> "webPages.value", title |-> "name", url |-> "url",
                    snippet |-> "snippet"]],
    [id |-> "searx", type |-> "browser", name |-> "Searx",
     baseUrl |-> "https://searx.be/search?q=",
     selectors |-> [result |-> ".result", title |-> ".result h3 a",
                    url |-> ".result .url", snippet |-> ".result .content"]]>>

\* The loop over the lines of engines.txt.  A line is given trimmed and split
\* at "|": skip says that it is empty or a comment, parts are its fields
RECURSIVE parseEngines(_, _)
parseEngines(engines, lines) ==
  IF lines = <<>> THEN engines
  ELSE LET line == Head(lines)
           parts == line.parts
       IN  IF line.skip \/ Len(parts) < 8 THEN parseEngines(engines, Tail(lines))
           ELSE parseEngines(
                  mapSet(engines,
                         [id |-> parts[1], type |-> parts[2], name |-> parts[3],
                          baseUrl |-> parts[4],
                          selectors |-> [result |-> parts[5], title |-> parts[6],
                                         url |-> parts[7], snippet |-> parts[8]]]),
                  Tail(lines))

\* loadEngines: the Map returned, and engineCache when it returns
loadEngines(cache, file) ==
  IF cache.set THEN cache.engines
  ELSE IF ~file.readable THEN getDefaultEngines
  ELSE parseEngines(<<>>, file.lines)

cacheAfterLoad(cache, file) ==
  IF cache.set \/ ~file.readable THEN cache
  ELSE [set |-> TRUE, engines |-> parseEngines(<<>>, file.lines)]

\* encodeURIComponent, token by token: a token of letters and digits is kept,
\* a reserved character is a token of its own
encodeToken(t) ==
  CASE t = " " -> "%20" [] t = "\"" -> "%22" [] t = "<" -> "%3C"
    [] t = ">" -> "%3E" [] t = "$" -> "%24" [] t = ":" -> "%3A"
    [] OTHER -> t

encodeURIComponent(q) == Flatten([i \in DOMAIN q |-> encodeToken(q[i])])

buildSearchUrl(e, query) ==
  LET encodedQuery == encodeURIComponent(query)
  IN  IF e.type = "browser" THEN e.baseUrl \o encodedQuery
      ELSE CASE e.id \in {"google", "bing", "brave", "github"} ->
                  e.baseUrl \o "?q=" \o encodedQuery
             [] e.id = "gitlab" -> e.baseUrl \o "?search=" \o encodedQuery
             [] e.id = "archive" ->
                  "https://web.archive.org/cdx/search/cdx?url=*" \o encodedQuery
                    \o "*&output=json&limit=10"
             [] OTHER -> e.baseUrl \o encodedQuery

\* Mutant: the type of the engine is not looked at
browserInstructionAnyType(req, engines) ==
  LET found == mapGet(engines, req.engine)
  IN  IF found = <<>> THEN <<>>
      ELSE <<[engine |-> found[1].id,
              navigateUrl |-> buildSearchUrl(found[1], req.query),
              waitTime |-> 3,
              selectors |-> found[1].selectors,
              instructions |-> <<>>]>>

\* The body of the loop of generateBrowserInstructions: what one request pushes
browserInstruction(req, engines) ==
  LET found == mapGet(engines, req.engine)
  IN  IF found = <<>> THEN <<>>
      ELSE IF found[1].type # "browser" THEN <<>>
      ELSE LET e == found[1]
               url == buildSearchUrl(e, req.query)
           IN  <<[engine |-> e.id,
                  navigateUrl |-> url,
                  waitTime |-> 3,
                  selectors |-> e.selectors,
                  instructions |->
                    <<"1. browser_navigate(url=\"" \o url \o "\")",
                      "2. browser_wait_for(time=3)",
                      "3. browser_snapshot()",
                      "4. Extract results using selectors:",
                      "   - Results container: " \o e.selectors.result,
                      "   - Title: " \o e.selectors.title,
                      "   - URL: " \o e.selectors.url,
                      "   - Snippet: " \o e.selectors.snippet>>]>>

generateBrowserInstructions(reqs, engines) ==
  Concat([i \in DOMAIN reqs |-> browserInstruction(reqs[i], engines)])

\* headers, as the pairs of a name and a value, and notes of an API engine
apiHeaders(id) ==
  CASE id = "bing" -> << <<"Ocp-Apim-Subscription-Key", "${BING_API_KEY}">> >>
    [] id = "brave" -> << <<"X-Subscription-Token", "${BRAVE_API_KEY}">> >>
    [] id = "github" -> << <<"Authorization", "token ${GITHUB_TOKEN}">>,
                           <<"Accept", "application/vnd.github.v3+json">> >>
    [] id = "gitlab" -> << <<"PRIVATE-TOKEN", "${GITLAB_TOKEN}">> >>
    [] OTHER -> <<>>

apiNotes(id) ==
  CASE id = "google" -> "Requires GOOGLE_API_KEY and GOOGLE_CX environment variables"
    [] id = "bing" -> "Requires BING_API_KEY environment variable"
    [] id = "brave" -> "Requires BRAVE_API_KEY environment variable"
    [] id = "github" -> "Optional GITHUB_TOKEN for higher rate limits"
    [] id = "gitlab" -> "Optional GITLAB_TOKEN for private projects"
    [] id = "archive" -> "No authentication required"
    [] OTHER -> ""

\* The body of the loop of generateApiInstructions: what one request pushes
apiInstruction(req, engines) ==
  LET found == mapGet(engines, req.engine)
  IN  IF found = <<>> THEN <<>>
      ELSE IF found[1].type # "api" THEN <<>>
      ELSE LET e == found[1]
           IN  <<[engine |-> e.id,
                  method |-> "GET",
                  url |-> buildSearchUrl(e, req.query),
                  headers |-> apiHeaders(e.id),
                  notes |-> apiNotes(e.id)]>>

generateApiInstructions(reqs, engines) ==
  Concat([i \in DOMAIN reqs |-> apiInstruction(reqs[i], engines)])

\* q.engine.toUpperCase() and engine.toLowerCase() of an engine identifier,
\* for the identifiers of the queries drawn and their capitalised forms
toUpperCaseId(id) ==
  CASE id \in {"google", "Google"} -> "GOOGLE"
    [] id \in {"searx", "Searx"} -> "SEARX"
    [] id \in {"yandex", "Yandex"} -> "YANDEX"
    [] id \in {"bing", "Bing"} -> "BING"
    [] OTHER -> id
toLowerCaseId(id) ==
  CASE id = "Google" -> "google" [] id = "Searx" -> "searx"
    [] id = "Yandex" -> "yandex" [] id = "Bing" -> "bing"
    [] OTHER -> id

\* getSearchUrl(engine, query)
getSearchUrl(id, query) ==
  LET encoded == encodeURIComponent(query)
      lower == toLowerCaseId(id)
  IN  CASE lower = "google" -> "https://www.google.com/search?q=" \o encoded
        [] lower = "bing" -> "https://www.bing.com/search?q=" \o encoded
        [] lower = "yandex" -> "https://yandex.com/search/?text=" \o encoded
        [] lower \in {"duckduckgo", "ddg"} -> "https://duckduckgo.com/?q=" \o encoded
        [] lower = "brave" -> "https://search.brave.com/search?q=" \o encoded
        [] lower = "baidu" -> "https://www.baidu.com/s?wd=" \o encoded
        [] lower = "github" -> "https://github.com/search?q=" \o encoded
        [] lower = "scholar" -> "https://scholar.google.com/scholar?q=" \o encoded
        [] lower \in {"archive", "wayback"} -> "https://web.archive.org/web/*/" \o encoded
        [] OTHER -> "https://www.google.com/search?q=" \o encoded

\* The queries pushed to browserQueries and to apiQueries
browserQueriesOf(qs, engines) ==
  LET IsBrowser(q) == \/ mapGet(engines, q.engine) = <<>>
                      \/ mapGet(engines, q.engine)[1].type = "browser"
  IN  SelectSeq(qs, IsBrowser)
apiQueriesOf(qs, engines) ==
  LET IsApi(q) == /\ mapGet(engines, q.engine) # <<>>
                  /\ mapGet(engines, q.engine)[1].type # "browser"
  IN  SelectSeq(qs, IsApi)

\* queries.map(q => ({ engine: q.engine, query: q.query }))
requestsOf(qs) == [i \in DOMAIN qs |-> [engine |-> qs[i].engine, query |-> qs[i].query]]

\* JSON.stringify(inst.headers)
stringifyHeaders(headers) ==
  "{" \o join([i \in DOMAIN headers |->
                 "\"" \o headers[i][1] \o "\":\"" \o headers[i][2] \o "\""], ",") \o "}"

\* The results pushed for the instructions of the two generators (the
\* timestamp of a result is left out)
browserResults(insts) ==
  [i \in DOMAIN insts |->
     [engine |-> insts[i].engine,
      query |-> insts[i].navigateUrl,
      title |-> "[BROWSER] " \o insts[i].engine,
      url |-> insts[i].navigateUrl,
      snippet |-> join(insts[i].instructions, "\n")]]
apiResults(insts) ==
  [i \in DOMAIN insts |->
     [engine |-> insts[i].engine,
      query |-> insts[i].url,
      title |-> "[API] " \o insts[i].engine,
      url |-> insts[i].url,
      snippet |-> "Method: " \o insts[i].method \o "\nHeaders: "
                    \o stringifyHeaders(insts[i].headers) \o "\n" \o insts[i].notes]]

\* The result pushed for a query no result has the engine of
fallbackResult(q) ==
  [engine |-> q.engine,
   query |-> Flatten(q.query),
   title |-> "[" \o toUpperCaseId(q.engine) \o "] Query prepared",
   url |-> getSearchUrl(q.engine, q.query),
   snippet |-> "Execute manually: " \o Flatten(q.query)]

\* The loop of the fallback: results.some(r => r.engine === q.engine) reads
\* the results pushed so far, those of the loop included
RECURSIVE withFallbacks(_, _)
withFallbacks(results, qs) ==
  IF qs = <<>> THEN results
  ELSE LET q == Head(qs)
           hasResult == \E k \in DOMAIN results : results[k].engine = q.engine
       IN  withFallbacks(
             IF hasResult THEN results ELSE Append(results, fallbackResult(q)),
             Tail(qs))

\* executeQueries(queries), over the Map loadEngines returns
executeQueries(qs, engines) ==
  LET browserQueries == browserQueriesOf(qs, engines)
      apiQueries == apiQueriesOf(qs, engines)
      browserInstructions == generateBrowserInstructions(requestsOf(browserQueries), engines)
      apiInstructions == generateApiInstructions(requestsOf(apiQueries), engines)
  IN  withFallbacks(browserResults(browserInstructions) \o apiResults(apiInstructions), qs)

----------------------------------------------------------------------------
(* The calls *)

\* The sequences over S of a length in lo..hi
SeqsOf(S, lo, hi) == UNION {[1..n -> S] : n \in lo..hi}

\* Phase numbers: the eight with a menu, and some without
PhaseInputs == (-1..(Len(PHASES) + 1)) \cup {999}

\* Topic texts: plain ones, and one shaped like a placeholder
TopicTexts == {<<"x">>, <<"<", "1", ">">>}
TopicInputs == SeqsOf(TopicTexts, 1, MaxTopics)

\* Characters of codes given to buildQueries: block letters, a precombination
\* letter, a relax letter, a digit
CodeChars == {"A", "B", "C", "X", "s", "1"}
CodeInputs == SeqsOf(CodeChars, 0, MaxCodes)

\* Characters of codes given to getActiveFilters alone
FilterCodeChars == {"s", "f", "t", "u", "c", "l", "a", "A", "X", "1"}
FilterCodeInputs == SeqsOf(FilterCodeChars, 0, MaxCodes)

\* Engine names given to getActiveFilters
EngineInputs ==
  {<<"google">>, <<"bing">>, <<"yandex">>, <<"ddg">>,
   <<"B", "I", "N", "G">>, <<"Y", "andex">>, <<"D", "D", "G">>,
   <<"unknownengine">>, <<"archive">>, <<"baidu">>, <<"scholar">>}

NoMenu == [phase |-> 0]

\* The files are not there, nothing is cached, no request is given
NoFile == [readable |-> FALSE, lines |-> <<>>]
NoCache == [set |-> FALSE, engines |-> <<>>]
LoadersIdle ==
  /\ configFile = NoFile
  /\ enginesFile = NoFile
  /\ engineCache = NoCache
  /\ requests = <<>>

\* The server as its module leaves it: nothing received, nothing sent
NoRequest == [name |-> ""]
NoResponse == [isError |-> FALSE, tool |-> ""]
ServerIdle ==
  /\ subjectMap = <<>>
  /\ currentPhase = <<1>>
  /\ stopRequested = FALSE
  /\ request = NoRequest
  /\ pending = <<>>
  /\ response = NoResponse
  /\ calls = 0

Init ==
  /\ config = getDefaultConfig
  /\ pc = "call"
  /\ menu = NoMenu
  /\ queries = <<>>
  /\ exclusions = <<>>
  /\ returned = <<>>
  /\ LoadersIdle
  /\ ServerIdle
  /\ \/ /\ op = "buildQueries"
        /\ phase \in PhaseInputs
        /\ topics \in TopicInputs
        /\ codes \in CodeInputs
        /\ engine = <<>>
     \/ /\ op = "getActiveFilters"
        /\ phase = 0
        /\ topics = <<>>
        /\ codes \in FilterCodeInputs
        /\ engine \in EngineInputs

\* buildQueries(phase, topics, codes, config)
BuildQueries ==
  /\ pc = "call"
  /\ op = "buildQueries"
  /\ menu' = getPhaseMenu(phase)
  /\ queries' = pushedQueries(menu', phase, topics, codes, config)
  /\ returned' = deduplicate(queries')
  /\ pc' = "done"
  /\ UNCHANGED <<config, op, phase, topics, codes, engine, exclusions>>
  /\ UNCHANGED <<loaderVars, serverVars>>

\* getActiveFilters(codes, config, engine)
GetActiveFilters ==
  /\ pc = "call"
  /\ op = "getActiveFilters"
  /\ exclusions' = exclusionsOf(codes, config, engine)
  /\ returned' = join(exclusions', " ")
  /\ pc' = "done"
  /\ UNCHANGED <<config, op, phase, topics, codes, engine, menu, queries>>
  /\ UNCHANGED <<loaderVars, serverVars>>

Next == BuildQueries \/ GetActiveFilters

Spec == Init /\ [][Next]_vars

----------------------------------------------------------------------------
(* buildQueries called with one uppercase letter as codes *)

LetterInputs == {<<l>> : l \in Range(Upper)}

LetterInit ==
  /\ config = getDefaultConfig
  /\ pc = "call"
  /\ menu = NoMenu
  /\ queries = <<>>
  /\ exclusions = <<>>
  /\ returned = <<>>
  /\ LoadersIdle
  /\ ServerIdle
  /\ op = "buildQueries"
  /\ phase \in PhaseInputs
  /\ topics \in TopicInputs
  /\ codes \in LetterInputs
  /\ engine = <<>>

LetterSpec == LetterInit /\ [][BuildQueries]_vars

----------------------------------------------------------------------------
(* buildQueries with any set of relax letters before one menu letter *)

\* The relax letters of a set, in the order of NOISE_FILTERS
RECURSIVE relaxLettersFrom(_, _)
relaxLettersFrom(i, R) ==
  IF i > Len(NOISE_FILTERS) THEN <<>>
  ELSE (IF NOISE_FILTERS[i].code \in R THEN <<NOISE_FILTERS[i].code>> ELSE <<>>)
         \o relaxLettersFrom(i + 1, R)

RelaxCodeInputs ==
  {relaxLettersFrom(1, R) \o <<l>> :
     R \in SUBSET {NOISE_FILTERS[i].code : i \in DOMAIN NOISE_FILTERS},
     l \in {"A", "B", "X"}}

RelaxInit ==
  /\ config = getDefaultConfig
  /\ pc = "call"
  /\ menu = NoMenu
  /\ queries = <<>>
  /\ exclusions = <<>>
  /\ returned = <<>>
  /\ LoadersIdle
  /\ ServerIdle
  /\ op = "buildQueries"
  /\ phase \in PhaseInputs
  /\ topics \in TopicInputs
  /\ codes \in RelaxCodeInputs
  /\ engine = <<>>

RelaxSpec == RelaxInit /\ [][BuildQueries]_vars

----------------------------------------------------------------------------
(* buildQueries over menus other than the ones of PHASE_MENUS: one building *)
(* block at most, and two precombinations whose constituents are any       *)
(* letters, their own and each other's included                            *)

MenuLetters == {"A", "X", "Y"}
ExpandsToInputs == SeqsOf(MenuLetters, 1, MaxExpand)

BlockA ==
  [code |-> "A", name |-> "Block A",
   engines |-> <<[engine |-> "google",
                  templates |-> << <<"\"", "<", "0", ">", "\"">> >>]>>]

MenuInputs ==
  {[phase |-> 1, id |-> "S1", name |-> PHASES[1].name, purpose |-> PHASES[1].purpose,
    noiseFilters |-> NOISE_FILTERS,
    buildingBlocks |-> blocks,
    precombinations |-> <<[code |-> "X", name |-> "Combo X", expandsTo |-> x],
                          [code |-> "Y", name |-> "Combo Y", expandsTo |-> y]>>,
    engineNuances |-> <<>>] :
     blocks \in {<<>>, <<BlockA>>}, x \in ExpandsToInputs, y \in ExpandsToInputs}

MenuCodeInputs == SeqsOf(MenuLetters, 1, MaxCodes)

MenuInit ==
  /\ config = getDefaultConfig
  /\ pc = "call"
  /\ menu \in MenuInputs
  /\ queries = <<>>
  /\ exclusions = <<>>
  /\ returned = <<>>
  /\ LoadersIdle
  /\ ServerIdle
  /\ op = "buildQueriesOfMenu"
  /\ phase = 1
  /\ topics = <<<<"x">>>>
  /\ codes \in MenuCodeInputs
  /\ engine = <<>>

\* buildQueries from the menu on: the expansion, the loops, the filter
BuildQueriesOfMenu ==
  /\ pc = "call"
  /\ op = "buildQueriesOfMenu"
  /\ queries' = pushedQueries(menu, phase, topics, codes, config)
  /\ returned' = deduplicate(queries')
  /\ pc' = "done"
  /\ UNCHANGED <<config, op, phase, topics, codes, engine, menu, exclusions>>
  /\ UNCHANGED <<loaderVars, serverVars>>

MenuSpec == MenuInit /\ [][BuildQueriesOfMenu]_vars

----------------------------------------------------------------------------
(* The instruction generators called with a list of requests, over the      *)
(* registries engines.txt can give                                          *)

MaxLines == 2
MaxRequests == 2

EngineTypes == {"api", "browser", "feed"}

\* A full line of engines.txt
EngineLine(id, type) ==
  [skip |-> FALSE,
   parts |-> <<id, type, "Engine " \o id, "https://" \o id \o ".example/search?q=",
               ".result", ".title", ".url", ".snippet">>]

\* Lines: empty or a comment, too short, and full ones
EngineLines ==
  {[skip |-> TRUE, parts |-> <<>>], [skip |-> FALSE, parts |-> <<"searx", "browser">>]}
    \cup {EngineLine(id, type) : id \in {"google", "searx"}, type \in EngineTypes}

EnginesFileInputs ==
  {NoFile} \cup {[readable |-> TRUE, lines |-> ls] : ls \in SeqsOf(EngineLines, 0, MaxLines)}

RequestInputs ==
  SeqsOf({[engine |-> e, query |-> q] :
            e \in {"google", "searx", "yandex"},
            q \in {<<"test">>, <<"test", " ", "query">>}},
         0, MaxRequests)

EnginesInit ==
  /\ config = getDefaultConfig
  /\ pc = "call"
  /\ menu = NoMenu
  /\ queries = <<>>
  /\ exclusions = <<>>
  /\ returned = <<>>
  /\ phase = 0
  /\ topics = <<>>
  /\ codes = <<>>
  /\ engine = <<>>
  /\ configFile = NoFile
  /\ engineCache = NoCache
  /\ enginesFile \in EnginesFileInputs
  /\ requests \in RequestInputs
  /\ ServerIdle
  /\ op \in {"generateBrowserInstructions", "generateApiInstructions"}

\* generateBrowserInstructions(requests)
GenerateBrowserInstructions ==
  /\ pc = "call"
  /\ op = "generateBrowserInstructions"
  /\ returned' = generateBrowserInstructions(requests, loadEngines(engineCache, enginesFile))
  /\ engineCache' = cacheAfterLoad(engineCache, enginesFile)
  /\ pc' = "done"
  /\ UNCHANGED <<config, op, phase, topics, codes, engine, menu, queries, exclusions>>
  /\ UNCHANGED <<configFile, enginesFile, requests, serverVars>>

\* generateApiInstructions(requests)
GenerateApiInstructions ==
  /\ pc = "call"
  /\ op = "generateApiInstructions"
  /\ returned' = generateApiInstructions(requests, loadEngines(engineCache, enginesFile))
  /\ engineCache' = cacheAfterLoad(engineCache, enginesFile)
  /\ pc' = "done"
  /\ UNCHANGED <<config, op, phase, topics, codes, engine, menu, queries, exclusions>>
  /\ UNCHANGED <<configFile, enginesFile, requests, serverVars>>

EnginesNext == GenerateBrowserInstructions \/ GenerateApiInstructions

EnginesSpec == EnginesInit /\ [][EnginesNext]_vars

----------------------------------------------------------------------------
(* executeQueries called with a list of queries, over the registries         *)
(* engines.txt can give                                                      *)

QueryInputs ==
  SeqsOf({[engine |-> e, query |-> q, phase |-> 1, blockCode |-> "A"] :
            e \in {"google", "searx", "yandex"},
            q \in {<<"test">>, <<"test", " ", "query">>}},
         0, MaxRequests)

ExecuteInit ==
  /\ config = getDefaultConfig
  /\ pc = "call"
  /\ menu = NoMenu
  /\ queries \in QueryInputs
  /\ exclusions = <<>>
  /\ returned = <<>>
  /\ phase = 0
  /\ topics = <<>>
  /\ codes = <<>>
  /\ engine = <<>>
  /\ configFile = NoFile
  /\ engineCache = NoCache
  /\ enginesFile \in EnginesFileInputs
  /\ requests = <<>>
  /\ ServerIdle
  /\ op = "executeQueries"

\* executeQueries(queries)
ExecuteQueries ==
  /\ pc = "call"
  /\ op = "executeQueries"
  /\ returned' = executeQueries(queries, loadEngines(engineCache, enginesFile))
  /\ engineCache' = cacheAfterLoad(engineCache, enginesFile)
  /\ pc' = "done"
  /\ UNCHANGED <<config, op, phase, topics, codes, engine, menu, queries, exclusions>>
  /\ UNCHANGED <<configFile, enginesFile, requests, serverVars>>

ExecuteSpec == ExecuteInit /\ [][ExecuteQueries]_vars

----------------------------------------------------------------------------
(* loadConfig, over the files fravia_menu.conf can be *)

ConfigLines ==
  {[kind |-> "skip"],
   [kind |-> "section", name |-> <<"meta">>],
   [kind |-> "section", name |-> <<"filters">>],
   [kind |-> "section", name |-> <<"S", "1">>],
   [kind |-> "pair", key |-> <<"version">>, value |-> <<"6.0">>],
   [kind |-> "pair", key |-> <<"1", "_", "SOCIAL">>,
    value |-> <<"-site:", "pinterest.*", " ", "-\"", "ad\"">>],
   [kind |-> "pair", key |-> <<"desc">>, value |-> <<"Recon">>],
   [kind |-> "pair", key |-> <<"option_", "A", "_val">>, value |-> <<"\"", "<", "0", ">", "\"">>]}

ConfigFileInputs ==
  {NoFile} \cup {[readable |-> TRUE, lines |-> ls] : ls \in SeqsOf(ConfigLines, 0, MaxLines)}

\* let config: FraviaConfig, before main has assigned it
NoConfig == [version |-> "", filters |-> <<>>, phases |-> <<>>, undefined |-> TRUE]

ConfigInit ==
  /\ config = NoConfig
  /\ pc = "call"
  /\ menu = NoMenu
  /\ queries = <<>>
  /\ exclusions = <<>>
  /\ returned = <<>>
  /\ phase = 0
  /\ topics = <<>>
  /\ codes = <<>>
  /\ engine = <<>>
  /\ enginesFile = NoFile
  /\ engineCache = NoCache
  /\ requests = <<>>
  /\ configFile \in ConfigFileInputs
  /\ ServerIdle
  /\ op = "loadConfig"

\* config = await loadConfig()
LoadConfig ==
  /\ pc = "call"
  /\ op = "loadConfig"
  /\ returned' = loadConfig(configFile)
  /\ config' = returned'
  /\ pc' = "done"
  /\ UNCHANGED <<op, phase, topics, codes, engine, menu, queries, exclusions>>
  /\ UNCHANGED <<loaderVars, serverVars>>

ConfigSpec == ConfigInit /\ [][LoadConfig]_vars

----------------------------------------------------------------------------
(* The server: the handler of tool calls and the functions it dispatches to. *)
(* An argument of a call is <<>> when it is missing and <<v>> when it is v;  *)
(* so is a variable that can be undefined.  A number that is not whole is   *)
(* <<n, d>>, the number n.d with n >= 0 and one digit d in 1..9             *)

MaxCalls == 2

\* String.prototype.trim on a string of single characters
Whitespace == {" ", "\t", "\n"}
trim(cs) ==
  LET inked == {i \in DOMAIN cs : cs[i] \notin Whitespace}
  IN  IF inked = {} THEN <<>>
      ELSE SubSeq(cs, CHOOSE i \in inked : \A k \in inked : i <= k,
                      CHOOSE i \in inked : \A k \in inked : i >= k)

\* String(v) of a number or undefined
StringOfValue(v) ==
  IF v = <<>> THEN "undefined"
  ELSE IF Len(v) = 1 THEN NumberString(v[1])
  ELSE NumberString(v[1]) \o "." \o NumberString(v[2])

\* Number.isInteger, and the comparisons of a number with a whole number
isInteger(v) == Len(v) = 1
lessThan(v, n) == v[1] < n
greaterThan(v, n) == v[1] > n \/ (v[1] = n /\ ~isInteger(v))

\* getPhaseMenu of a number or undefined: PHASE_MENUS[v] and PHASES[v - 1]
\* are undefined when v is undefined or not whole
menuOfValue(v) ==
  IF v # <<>> /\ isInteger(v) THEN getPhaseMenu(v[1])
  ELSE [phase |-> v,
        id |-> "S" \o StringOfValue(v),
        name |-> "Unknown",
        purpose |-> "Not defined",
        noiseFilters |-> NOISE_FILTERS,
        buildingBlocks |-> <<>>,
        precombinations |-> <<>>,
        engineNuances |-> <<>>]

\* phase < 1 || phase > 8: both comparisons are false for undefined
phaseOutOfRange(v) == v # <<>> /\ (lessThan(v, 1) \/ greaterThan(v, 8))

\* The response of the catch clause of the handler
errorResponse(message) == [isError |-> TRUE, tool |-> "", text |-> "Error: " \o message]

\* Mutant: codes is not trimmed before it is compared with ""
codesMissingUntrimmed(cs) == cs = <<>> \/ cs[1] = <<>>

\* !topics || topics.length === 0, and !codes || codes.trim() === ""
topicsMissing(tps) == tps = <<>> \/ tps[1] = <<>>
codesMissing(cs) == cs = <<>> \/ cs[1] = <<>> \/ trim(cs[1]) = <<>>

\* The message handleExecute throws for its arguments, "" if it throws none
executeError(args) ==
  IF phaseOutOfRange(args.phase) THEN "Phase must be 1-8"
  ELSE IF topicsMissing(args.topics) THEN "At least one topic required"
  ELSE IF codesMissing(args.codes) THEN "Codes required (e.g., 'A', 'XY', 's AC')"
  ELSE ""

\* topics.forEach((t, i) => subjectMap.set(String(i), t)), from index i on
RECURSIVE setSubjectsFromTopics(_, _, _)
setSubjectsFromTopics(map, tps, i) ==
  IF i >= Len(tps) THEN map
  ELSE setSubjectsFromTopics(keyedSet(map, [key |-> NumberString(i), text |-> tps[i + 1]]),
                             tps, i + 1)

\* subjects.forEach(s => subjectMap.set(s.id, s.text))
RECURSIVE setSubjects(_, _)
setSubjects(map, subjects) ==
  IF subjects = <<>> THEN map
  ELSE setSubjects(keyedSet(map, [key |-> Head(subjects).id, text |-> Head(subjects).text]),
                   Tail(subjects))

\* The local variables of a handleExecute call at await executeQueries
pendingExecute(p, tps, cs, qs) == [phase |-> p, topics |-> tps, codes |-> cs, queries |-> qs]

\* Mutant: the queries reported are the ones built last, by any call
executionResponseOfLast(c) ==
  [isError |-> FALSE, tool |-> "fravia_execute",
   phase |-> c.phase,
   codes |-> c.codes,
   generated |-> Len(returned),
   queries |-> [i \in DOMAIN returned |-> [engine |-> returned[i].engine, query |-> returned[i].query]],
   next |-> IF c.phase # <<>> /\ c.phase[1] < 8 THEN NumberString(c.phase[1] + 1)
            ELSE "COMPLETE"]

\* formatExecutionResults: of the text, the phase, the codes, the number of
\* queries, the queries and the next phase
executionResponse(c) ==
  [isError |-> FALSE, tool |-> "fravia_execute",
   phase |-> c.phase,
   codes |-> c.codes,
   generated |-> Len(c.queries),
   queries |-> [i \in DOMAIN c.queries |->
                  [engine |-> c.queries[i].engine, query |-> c.queries[i].query]],
   next |-> IF c.phase # <<>> /\ c.phase[1] < 8 THEN NumberString(c.phase[1] + 1)
            ELSE "COMPLETE"]

\* The arguments of a call, all missing
NoArgs ==
  [phase |-> <<>>, topics |-> <<>>, codes |-> <<>>, subjects |-> <<>>,
   continue_to_phase |-> <<>>, reason |-> <<>>]

ExecuteTopics == {<< <<"x">> >>, << <<"y">>, <<"x">> >>}
ExecuteCodes == {<<"A">>, <<"s", " ", "X">>}

\* fravia_execute calls: the ones with all arguments in order, and ones with
\* a phase out of range, topics missing or empty, codes missing, empty or blank
ExecuteCalls ==
  {[name |-> "fravia_execute",
    args |-> [NoArgs EXCEPT !.phase = <<ph>>, !.topics = <<tps>>, !.codes = <<cs>>]] :
     ph \in {1, 7}, tps \in ExecuteTopics, cs \in ExecuteCodes}
  \cup
  {[name |-> "fravia_execute",
    args |-> [NoArgs EXCEPT !.phase = <<ph>>, !.topics = << << <<"x">> >> >>, !.codes = << <<"A">> >>]] :
     ph \in {0, 9}}
  \cup
  {[name |-> "fravia_execute",
    args |-> [NoArgs EXCEPT !.phase = <<1>>, !.topics = tps, !.codes = << <<"A">> >>]] :
     tps \in {<<>>, << <<>> >>}}
  \cup
  {[name |-> "fravia_execute",
    args |-> [NoArgs EXCEPT !.phase = <<1>>, !.topics = << << <<"x">> >> >>, !.codes = cs]] :
     cs \in {<<>>, << <<>> >>, << <<" ">> >>, << <<" ", "\t">> >>}}
  \cup
  {[name |-> "fravia_execute", args |-> [NoArgs EXCEPT !.phase = <<0>>]]}

GetMenuCalls ==
  {[name |-> "fravia_get_menu", args |-> [NoArgs EXCEPT !.phase = ph]] :
     ph \in {<<>>, <<0>>, <<2>>, <<2, 5>>}}

SetSubjectsCalls ==
  {[name |-> "fravia_set_subjects", args |-> [NoArgs EXCEPT !.subjects = ss]] :
     ss \in {<<>>, << <<[id |-> "1", text |-> <<"z">>]>> >>}}

StopCalls ==
  {[name |-> "fravia_stop", args |-> [NoArgs EXCEPT !.continue_to_phase = ph]] :
     ph \in {<<>>, <<3>>, <<9>>, <<4, 5>>}}

ServerInit ==
  /\ configFile = NoFile
  /\ config = loadConfig(configFile)
  /\ op = "server"
  /\ pc = "serve"
  /\ phase = 0
  /\ topics = <<>>
  /\ codes = <<>>
  /\ engine = <<>>
  /\ menu = NoMenu
  /\ queries = <<>>
  /\ exclusions = <<>>
  /\ returned = <<>>
  /\ enginesFile = NoFile
  /\ engineCache = NoCache
  /\ requests = <<>>
  /\ ServerIdle

\* What no handler but handleExecute touches: the locals of buildQueries
buildVars == <<phase, topics, codes, menu, queries, returned>>

\* What no handler touches
fixedVars == <<config, op, pc, engine, exclusions, configFile, enginesFile, requests>>

\* case "fravia_get_index": handleGetIndex()
GetIndex ==
  /\ calls < MaxCalls
  /\ calls' = calls + 1
  /\ request' = [name |-> "fravia_get_index", args |-> NoArgs]
  /\ response' =
       [isError |-> FALSE, tool |-> "fravia_get_index",
        phases |-> [i \in DOMAIN PHASES |->
                      [code |-> NumberString(i), id |-> "S" \o NumberString(i),
                       name |-> PHASES[i].name, purpose |-> PHASES[i].purpose]],
        nextPhaseCode |-> StringOfValue(currentPhase)]
  /\ UNCHANGED <<subjectMap, currentPhase, stopRequested, pending, engineCache>>
  /\ UNCHANGED <<buildVars, fixedVars>>

\* case "fravia_get_menu": handleGetMenu(args?.phase)
GetMenu ==
  \E call \in GetMenuCalls :
    /\ calls < MaxCalls
    /\ calls' = calls + 1
    /\ request' = call
    /\ IF phaseOutOfRange(call.args.phase)
         THEN /\ response' = errorResponse("Phase must be 1-8")
              /\ UNCHANGED currentPhase
         ELSE /\ currentPhase' = call.args.phase
              /\ response' = [isError |-> FALSE, tool |-> "fravia_get_menu",
                              menu |-> menuOfValue(call.args.phase)]
    /\ UNCHANGED <<subjectMap, stopRequested, pending, engineCache>>
    /\ UNCHANGED <<buildVars, fixedVars>>

\* case "fravia_execute": handleExecute(args?.phase, args?.topics, args?.codes),
\* up to the first await of executeQueries, or to the throw and its catch
Execute ==
  \E call \in ExecuteCalls :
    /\ calls < MaxCalls
    /\ calls' = calls + 1
    /\ request' = call
    /\ IF executeError(call.args) # ""
         THEN /\ response' = errorResponse(executeError(call.args))
              /\ UNCHANGED <<subjectMap, pending, buildVars>>
         ELSE /\ subjectMap' = setSubjectsFromTopics(subjectMap, call.args.topics[1], 0)
              /\ phase' = IF call.args.phase = <<>> THEN <<>> ELSE call.args.phase[1]
              /\ topics' = call.args.topics[1]
              /\ codes' = call.args.codes[1]
              /\ menu' = menuOfValue(call.args.phase)
              /\ queries' = pushedQueries(menu', phase', topics', codes', config)
              /\ returned' = deduplicate(queries')
              /\ pending' = Append(pending,
                                   pendingExecute(call.args.phase, topics', codes', returned'))
              /\ UNCHANGED response
    /\ UNCHANGED <<currentPhase, stopRequested, engineCache, fixedVars>>

\* handleExecute from await executeQueries on, for one of the calls waiting
ResumeExecute ==
  \E i \in DOMAIN pending :
    /\ response' = executionResponse(pending[i])
    /\ pending' = SubSeq(pending, 1, i - 1) \o SubSeq(pending, i + 1, Len(pending))
    /\ engineCache' = cacheAfterLoad(engineCache, enginesFile)
    /\ UNCHANGED <<subjectMap, currentPhase, stopRequested, request, calls>>
    /\ UNCHANGED <<buildVars, fixedVars>>

\* case "fravia_set_subjects": handleSetSubjects(args?.subjects); forEach of
\* undefined throws after the map is cleared
SetSubjects ==
  \E call \in SetSubjectsCalls :
    /\ calls < MaxCalls
    /\ calls' = calls + 1
    /\ request' = call
    /\ IF call.args.subjects = <<>>
         THEN /\ subjectMap' = <<>>
              /\ response' = errorResponse("Cannot read properties of undefined (reading 'forEach')")
         ELSE /\ subjectMap' = setSubjects(<<>>, call.args.subjects[1])
              /\ response' = [isError |-> FALSE, tool |-> "fravia_set_subjects",
                              subjects |-> call.args.subjects[1]]
    /\ UNCHANGED <<currentPhase, stopRequested, pending, engineCache>>
    /\ UNCHANGED <<buildVars, fixedVars>>

\* case "fravia_stop": handleStop(args?.continue_to_phase, args?.reason); the
\* phase named as complete is currentPhase - 1 read after the assignment
Stop ==
  \E call \in StopCalls :
    LET continueToPhase == call.args.continue_to_phase
        reason == IF call.args.reason = <<>> THEN "" ELSE call.args.reason[1]
        continues == /\ continueToPhase # <<>>
                     /\ continueToPhase # <<0>>
                     /\ ~lessThan(continueToPhase, 1)
                     /\ ~greaterThan(continueToPhase, 8)
    IN  /\ calls < MaxCalls
        /\ calls' = calls + 1
        /\ request' = call
        /\ stopRequested' = TRUE
        /\ IF continues
             THEN /\ currentPhase' = continueToPhase
                  \* PHASES[continueToPhase - 1] is undefined for a number
                  \* that is not whole, and reading its name throws
                  /\ response' =
                       IF isInteger(continueToPhase)
                         THEN [isError |-> FALSE, tool |-> "fravia_stop",
                               followup |-> TRUE,
                               complete |-> NumberString(continueToPhase[1] - 1),
                               reason |-> reason,
                               continuing |-> NumberString(continueToPhase[1]),
                               name |-> PHASES[continueToPhase[1]].name]
                         ELSE errorResponse("Cannot read properties of undefined (reading 'name')")
             ELSE /\ response' = [isError |-> FALSE, tool |-> "fravia_stop",
                                  followup |-> FALSE, reason |-> reason]
                  /\ UNCHANGED currentPhase
        /\ UNCHANGED <<subjectMap, pending, engineCache>>
        /\ UNCHANGED <<buildVars, fixedVars>>

\* default: throw new Error(`Unknown tool: ${name}`)
UnknownTool ==
  /\ calls < MaxCalls
  /\ calls' = calls + 1
  /\ request' = [name |-> "fravia_search", args |-> NoArgs]
  /\ response' = errorResponse("Unknown tool: " \o "fravia_search")
  /\ UNCHANGED <<subjectMap, currentPhase, stopRequested, pending, engineCache>>
  /\ UNCHANGED <<buildVars, fixedVars>>

ServerNext ==
  \/ GetIndex
  \/ GetMenu
  \/ Execute
  \/ ResumeExecute
  \/ SetSubjects
  \/ Stop
  \/ UnknownTool

ServerSpec == ServerInit /\ [][ServerNext]_vars

----------------------------------------------------------------------------
(* Properties *)

Built == op = "buildQueries" /\ pc = "done"
Resolved == op = "getActiveFilters" /\ pc = "done"

\* The (engine, query) pairs, and the (engine, query, phase) triples, of a result
PairsOf(qs) == {<<qs[i].engine, qs[i].query>> : i \in DOMAIN qs}
TriplesOf(qs) == {<<qs[i].engine, qs[i].query, qs[i].phase>> : i \in DOMAIN qs}

\* The relax letters of the menu
RelaxLetters == {NOISE_FILTERS[i].code : i \in DOMAIN NOISE_FILTERS}

\* The engine names that are dialect names as written
DialectNames == {<<"google">>, <<"bing">>, <<"yandex">>, <<"ddg">>}

\* The clauses of every filter of the configuration in dialect d, joined
AllClauses(d) == join([i \in DOMAIN config.filters |-> config.filters[i][d]], " ")

\* The non-empty clauses in dialect d of the filters whose relax letter is not
\* among the characters of cs, in the order of the filter table
ClausesNotRelaxedBy(cs, d) ==
  LET Stays(filter) == filter.code \notin Range(cs) /\ filter[d] # ""
      kept == SelectSeq(config.filters, Stays)
  IN  [i \in DOMAIN kept |-> kept[i][d]]

\* C1: the sequence buildQueries returns holds no two elements with the same
\* engine and the same query, whatever the phase, the topics (repeated ones
\* too) and the codes.
C1_NoDuplicatePairs ==
  Built =>
    \A i, j \in DOMAIN returned :
      (returned[i].engine = returned[j].engine
         /\ returned[i].query = returned[j].query) => i = j

\* A call with a repeated topic whose pushed queries held duplicates
C1_Witness ==
  /\ Built
  /\ Len(topics) = 2 /\ topics[1] = topics[2]
  /\ returned # <<>>
  /\ Len(returned) < Len(queries)

\* C2: called with a precombination's code alone, buildQueries returns the same
\* (engine, query) pairs as called with the precombination's constituent
\* letters written out.
C2_PrecombinationAsLetters ==
  Built =>
    \A k \in DOMAIN menu.precombinations :
      codes = <<menu.precombinations[k].code>> =>
        PairsOf(returned) =
          PairsOf(buildQueries(phase, topics, menu.precombinations[k].expandsTo,
                               config))

\* C3: codes without a lowercase relax letter leave every filter active:
\* getActiveFilters returns the clauses of all the filters, and phase 1,
\* topics ["x"], codes "A" gives google the query "x" OR "x" OR "x" followed
\* by the google clauses of all the filters.
C3_AllFiltersWithoutRelaxLetter ==
  /\ (Resolved /\ engine \in DialectNames /\ Range(codes) \cap RelaxLetters = {})
       => returned = AllClauses(engine[1])
  /\ (Built /\ phase = 1 /\ topics = << <<"x">> >> /\ codes = <<"A">>)
       => \E i \in DOMAIN returned :
            /\ returned[i].engine = "google"
            /\ returned[i].query =
                 "\"x\" OR \"x\" OR \"x\" " \o AllClauses("google")

\* C4: getActiveFilters returns the single-space join, in the order of the
\* filter table, of the non-empty clauses of exactly the filters whose relax
\* letter does not occur in codes.
C4_ClausesOfUnrelaxedFilters ==
  (Resolved /\ engine \in DialectNames) =>
    returned = join(ClausesNotRelaxedBy(codes, engine[1]), " ")

\* C5: for a fixed engine, adding a lowercase relax letter to codes never
\* increases the number of filters that contribute a clause, and with empty
\* codes every filter contributes.
C5_HygieneMonotone ==
  Resolved =>
    /\ \A r \in RelaxLetters :
         /\ Len(exclusionsOf(Append(codes, r), config, engine)) <= Len(exclusions)
         /\ Len(exclusionsOf(<<r>> \o codes, config, engine)) <= Len(exclusions)
    /\ (codes = <<>> =>
          /\ Len(exclusions) = Len(config.filters)
          /\ \E d \in validEngines : returned = AllClauses(d))

\* A call whose codes relax some filter, and to which a further letter can
\* be added that relaxes one more
C5_Witness ==
  /\ Resolved
  /\ 0 < Len(exclusions) /\ Len(exclusions) < Len(config.filters)
  /\ \E r \in RelaxLetters :
       Len(exclusionsOf(Append(codes, r), config, engine)) < Len(exclusions)

\* The dialect the engine names drawn are to resolve to
ExpectedDialect(eng) ==
  CASE eng \in {<<"bing">>, <<"B", "I", "N", "G">>} -> "bing"
    [] eng \in {<<"yandex">>, <<"Y", "andex">>} -> "yandex"
    [] eng \in {<<"ddg">>, <<"D", "D", "G">>} -> "ddg"
    [] OTHER -> "google"

\* C6: the clauses are those of the dialect the engine name matches without
\* regard to case among google, bing, yandex and ddg, and those of google
\* for every other engine name.
C6_DialectByEngineName ==
  Resolved =>
    exclusions =
      LET d == ExpectedDialect(engine)
          Stays(filter) == filter.num \notin relaxedCodes(codes) /\ filter[d] # ""
          kept == SelectSeq(config.filters, Stays)
      IN  [i \in DOMAIN kept |-> kept[i][d]]

\* A call for "BING" that returned bing clauses, which are not google's
C6_Witness ==
  /\ Resolved
  /\ engine = <<"B", "I", "N", "G">>
  /\ exclusions # <<>>
  /\ exclusions[1] = config.filters[1].bing
  /\ exclusions[1] # config.filters[1].google

\* The number a run of digit tokens writes
RECURSIVE NumberOf(_)
NumberOf(ds) ==
  IF ds = <<>> THEN 0
  ELSE 10 * NumberOf(SubSeq(ds, 1, Len(ds) - 1))
         + (CHOOSE n \in 0..9 : DigitChars[n + 1] = ds[Len(ds)])

\* The template from position i on with every placeholder <N> replaced at
\* once: by topics[N] when N < |topics|, by topics[0] otherwise
RECURSIVE PlaceholdersFilled(_, _, _)
PlaceholdersFilled(template, i, tps) ==
  IF i > Len(template) THEN <<>>
  ELSE LET len == matchLength(template, i, -1)
       IN  IF len > 0
             THEN LET n == NumberOf(SubSeq(template, i + 1, i + len - 2))
                  IN  (IF n < Len(tps) THEN tps[n + 1] ELSE tps[1])
                        \o PlaceholdersFilled(template, i + len, tps)
             ELSE <<template[i]>> \o PlaceholdersFilled(template, i + 1, tps)

\* The (engine, query) pairs of the matched blocks when placeholders are
\* filled that way
FilledPairs ==
  LET expanded == expandedCodesOf(menu, codes)
      matched == UNION {Range(blocksWith(menu, expanded[c])) : c \in DOMAIN expanded}
  IN  UNION {UNION {
        {<<b.engines[e].engine,
           LET text == Flatten(PlaceholdersFilled(b.engines[e].templates[t], 1, topics))
               hygieneString == getActiveFilters(codes, config, <<b.engines[e].engine>>)
           IN  IF hygieneString # "" THEN text \o " " \o hygieneString ELSE text>> :
          t \in DOMAIN b.engines[e].templates} :
        e \in DOMAIN b.engines} : b \in matched}

\* C7: in every returned query each placeholder <N> of the template is
\* replaced by topics[N] when N < |topics| and by topics[0] otherwise, for
\* every template and every non-empty topic list; each template of a matched
\* block gives one entry.
C7_PlaceholdersFilledFromTopics ==
  Built => PairsOf(returned) = FilledPairs

\* C8: for a phase without a configured menu, getPhaseMenu gives a menu with
\* every field, no building block and no precombination, and buildQueries
\* returns the empty sequence for every topic list and codes.
C8_UnknownPhaseEmpty ==
  (Built /\ phase \notin DOMAIN PHASE_MENUS) =>
    /\ DOMAIN menu = {"phase", "id", "name", "purpose", "noiseFilters",
                      "buildingBlocks", "precombinations", "engineNuances"}
    /\ menu.phase = phase
    /\ menu.noiseFilters = NOISE_FILTERS
    /\ menu.buildingBlocks = <<>>
    /\ menu.precombinations = <<>>
    /\ returned = <<>>

\* A call for phase 999 whose codes select a block letter
C8_Witness ==
  /\ Built
  /\ phase = 999
  /\ blockCodesOf(codes) # <<>>
  /\ menu.buildingBlocks = <<>>
  /\ returned = <<>>

\* codes with the characters at i and i + 1 exchanged (every reordering of
\* codes is a chain of such exchanges, and each link is the codes of a call)
SwapAt(cs, i) ==
  [k \in DOMAIN cs |-> IF k = i THEN cs[i + 1] ELSE IF k = i + 1 THEN cs[i] ELSE cs[k]]

\* C9 as claimed: codes holding the same characters in another order give the
\* same set of constructed queries (engine, query, phase, blockCode).
C9_OrderInsensitive ==
  Built =>
    \A i \in 1..(Len(codes) - 1) :
      codes[i] # codes[i + 1] =>
      Range(buildQueries(phase, topics, SwapAt(codes, i), config)) = Range(returned)

\* C9 as amended: codes holding the same characters in another order give the
\* same set of (engine, query, phase); the blockCode of a query that several
\* of the selected blocks produce is that of the block selected first.
C9_OrderInsensitiveTriples ==
  Built =>
    \A i \in 1..(Len(codes) - 1) :
      codes[i] # codes[i + 1] =>
        TriplesOf(buildQueries(phase, topics, SwapAt(codes, i), config))
          = TriplesOf(returned)

\* A call whose codes, reordered, give the same queries under other block codes
C9_Witness ==
  /\ Built
  /\ returned # <<>>
  /\ \E i \in 1..(Len(codes) - 1) :
       LET other == buildQueries(phase, topics, SwapAt(codes, i), config)
       IN  /\ Range(other) # Range(returned)
           /\ TriplesOf(other) = TriplesOf(returned)

\* The filter numbers, as characters
FilterDigits == {config.filters[n].num : n \in DOMAIN config.filters}

\* codes with each filter number replaced by the relax letter of that filter
DigitsAsLetters(cs) ==
  [k \in DOMAIN cs |->
     IF cs[k] \in FilterDigits
       THEN LET n == CHOOSE m \in DOMAIN config.filters : config.filters[m].num = cs[k]
            IN  config.filters[n].code
       ELSE cs[k]]

\* C10: a digit in codes relaxes the filter of that number: its
\* clause is in no dialect among the clauses kept, and the queries are those
\* of the codes with the filter's relax letter in the digit's place.
C10_DigitsRelax ==
  /\ Resolved =>
       \A n \in DOMAIN config.filters :
         config.filters[n].num \in Range(codes) =>
           \A d \in validEngines : config.filters[n][d] \notin Range(exclusions)
  /\ Built =>
       returned = buildQueries(phase, topics, DigitsAsLetters(codes), config)

\* C16: PHASES has exactly 8 entries with the ids S1..S8 in order, and for
\* every p in 1..8 the menu getPhaseMenu(p) has phase p, the id "S"+p, which
\* is the id of the p-th entry of PHASES, that entry's name, the 7 noise
\* filters, at least one building block and at least one precombination.
C16_PhaseMenusWellFormed ==
  /\ Len(PHASES) = 8
  /\ \A p \in DOMAIN PHASES : PHASES[p].id = "S" \o NumberString(p)
  /\ (Built /\ phase \in 1..8) =>
       /\ menu.phase = phase
       /\ menu.id = "S" \o NumberString(phase)
       /\ menu.id = PHASES[phase].id
       /\ menu.name = PHASES[phase].name
       /\ Len(menu.noiseFilters) = 7
       /\ menu.noiseFilters = NOISE_FILTERS
       /\ Len(menu.buildingBlocks) >= 1
       /\ Len(menu.precombinations) >= 1

C16_Witness == Built /\ phase = 8 /\ menu.id = "S8" /\ Len(menu.buildingBlocks) >= 1

\* The codes of the building blocks and of the precombinations of a menu
BlockCodes(m) == {m.buildingBlocks[i].code : i \in DOMAIN m.buildingBlocks}
PrecomboCodes(m) == {m.precombinations[i].code : i \in DOMAIN m.precombinations}

\* C18: an uppercase letter that is neither a building-block code nor a
\* precombination code of the phase, appended to codes, changes nothing in
\* the sequence construct returns.
C18_UnmatchedLetterSkipped ==
  Built =>
    \A L \in Range(Upper) :
      L \notin BlockCodes(menu) \cup PrecomboCodes(menu) =>
        buildQueries(phase, topics, Append(codes, L), config) = returned

\* The elements of a sequence at the indices of a set, in increasing order
AtIndices(qs, K) ==
  [n \in 1..Cardinality(K) |->
     qs[CHOOSE i \in K : Cardinality({j \in K : j <= i}) = n]]

\* The indices of the first occurrences, by the value of F, in a sequence
FirstIndices(qs, F(_)) ==
  {i \in DOMAIN qs : \A j \in 1..(i - 1) : F(qs[j]) # F(qs[i])}

\* The letters of codes with every precombination letter replaced by its
\* constituents, and the blocks of the menu among them in the order of their
\* first entry
LettersEntered(m, cs) ==
  LET letters == blockCodesOf(cs)
      Of(l) == IF l \in PrecomboCodes(m)
                 THEN (CHOOSE i \in DOMAIN m.precombinations :
                         /\ m.precombinations[i].code = l
                         /\ \A j \in 1..(i - 1) : m.precombinations[j].code # l)
                 ELSE 0
  IN  Concat([k \in DOMAIN letters |->
                IF Of(letters[k]) = 0 THEN <<letters[k]>>
                ELSE m.precombinations[Of(letters[k])].expandsTo])

BlocksEntered(m, cs) ==
  LET entered == LettersEntered(m, cs)
      Same(l) == l
      first == AtIndices(entered, FirstIndices(entered, Same))
      IsBlock(l) == l \in BlockCodes(m)
  IN  SelectSeq(first, IsBlock)

\* The production order: by block in the order of first entry, then by the
\* block's engines as declared, then by template, once per topic
ProductionOrder(m, p, tps, cs, cfg) ==
  LET entered == BlocksEntered(m, cs)
      BlockOf(l) == m.buildingBlocks[CHOOSE i \in DOMAIN m.buildingBlocks :
                      /\ m.buildingBlocks[i].code = l
                      /\ \A j \in 1..(i - 1) : m.buildingBlocks[j].code # l]
      OfTemplate(l, e, t) ==
        LET q == [engine |-> e.engine,
                  query |-> queryOf(t, tps, getActiveFilters(cs, cfg, <<e.engine>>)),
                  phase |-> p,
                  blockCode |-> l]
        IN  [i \in DOMAIN tps |-> q]
      OfEngine(l, e) ==
        Concat([t \in DOMAIN e.templates |-> OfTemplate(l, e, e.templates[t])])
      OfBlock(l) ==
        Concat([e \in DOMAIN BlockOf(l).engines |-> OfEngine(l, BlockOf(l).engines[e])])
  IN  Concat([b \in DOMAIN entered |-> OfBlock(entered[b])])

PairOf(q) == <<q.engine, q.query>>

\* C20: the queries are produced by block in the order the blocks first
\* enter the expanded set, then by engine as declared, then by template; what
\* construct returns is that list restricted to the first occurrence of each
\* (engine, query) pair, in the same order, each kept element with the
\* blockCode of the block that produced it first.
C20_ProductionOrderFirstOccurrences ==
  Built =>
    /\ queries = ProductionOrder(menu, phase, topics, codes, config)
    /\ returned = AtIndices(queries, FirstIndices(queries, PairOf))

\* two blocks produce the same pair, and a block enters the set twice
C20_Witness ==
  /\ Built
  /\ Len(returned) >= 2
  /\ Len(returned) < Len(queries)
  /\ \E i, j \in DOMAIN queries :
       /\ i < j
       /\ PairOf(queries[i]) = PairOf(queries[j])
       /\ queries[i].blockCode # queries[j].blockCode
       /\ \E k \in DOMAIN returned :
            returned[k] = queries[i] /\ returned[k] # queries[j]

\* C15: for every phase 1..8 and every precombination of that phase,
\* construct called with that precombination's code alone and at least one
\* topic returns, for each constituent block, at least one query whose
\* blockCode is that block, and no query whose blockCode is the
\* precombination letter.
C15_PrecombinationAloneExpands ==
  (Built /\ phase \in 1..8 /\ Len(codes) = 1 /\ Len(topics) >= 1) =>
    \A i \in DOMAIN menu.precombinations :
      menu.precombinations[i].code = codes[1] =>
        /\ \A b \in Range(menu.precombinations[i].expandsTo) :
             \E k \in DOMAIN returned : returned[k].blockCode = b
        /\ \A k \in DOMAIN returned : returned[k].blockCode # codes[1]

C15_Witness ==
  /\ Built
  /\ phase = 8
  /\ codes = <<"Y">>
  /\ {returned[k].blockCode : k \in DOMAIN returned} = {"A", "D"}

BuiltOfMenu == op = "buildQueriesOfMenu" /\ pc = "done"

\* The constituents of the first precombination of a menu with a code
ConstituentsOf(m, l) ==
  LET i == CHOOSE k \in DOMAIN m.precombinations :
             /\ m.precombinations[k].code = l
             /\ \A j \in 1..(k - 1) : m.precombinations[j].code # l
  IN  Range(m.precombinations[i].expandsTo)

\* The letters selected by codes, precombination letters expanded once
SelectedOnce(m, cs) ==
  UNION {IF l \in PrecomboCodes(m) THEN ConstituentsOf(m, l) ELSE {l} :
           l \in Range(blockCodesOf(cs))}

\* C19: for any menu, one where a constituent of a precombination is itself
\* a precombination letter or where precombinations name each other
\* included, the blocks with queries in the result of the call are the
\* building blocks among the letters of codes with each precombination
\* letter expanded once: a constituent that is not a building block
\* contributes no query and is not expanded again.
C19_ExpansionOneLevel ==
  BuiltOfMenu =>
    {returned[k].blockCode : k \in DOMAIN returned} =
      SelectedOnce(menu, codes) \cap BlockCodes(menu)

\* X names Y, Y names X and the block A; X alone selects nothing
C19_Witness ==
  /\ BuiltOfMenu
  /\ codes = <<"X">>
  /\ menu.buildingBlocks # <<>>
  /\ menu.precombinations[1].expandsTo = <<"Y">>
  /\ menu.precombinations[2].expandsTo = <<"X", "A">>
  /\ returned = <<>>

\* The engines the registry holds, after the call
Registry == loadEngines(engineCache, enginesFile)

\* The indices of the requests whose engine is registered with a type of a set
RequestsOfType(types) ==
  {i \in DOMAIN requests :
     \E k \in DOMAIN Registry :
       Registry[k].id = requests[i].engine /\ Registry[k].type \in types}

\* The requests of a set of indices, in request order
RequestsAt(K) == AtIndices(requests, K)

\* Each generator returns exactly one instruction, in request order, for each
\* request whose engine is registered with its type, and none for the others
OneInstructionPerRequestOfType ==
  /\ (op = "generateBrowserInstructions" /\ pc = "done") =>
       LET reqs == RequestsAt(RequestsOfType({"browser"}))
       IN  /\ Len(returned) = Len(reqs)
           /\ \A n \in DOMAIN reqs :
                /\ returned[n].engine = reqs[n].engine
                /\ returned[n].navigateUrl =
                     buildSearchUrl(mapGet(Registry, reqs[n].engine)[1], reqs[n].query)
  /\ (op = "generateApiInstructions" /\ pc = "done") =>
       LET reqs == RequestsAt(RequestsOfType({"api"}))
       IN  /\ Len(returned) = Len(reqs)
           /\ \A n \in DOMAIN reqs :
                /\ returned[n].engine = reqs[n].engine
                /\ returned[n].method = "GET"
                /\ returned[n].url =
                     buildSearchUrl(mapGet(Registry, reqs[n].engine)[1], reqs[n].query)

\* The number of instructions the two generators return for the requests
InstructionsOfBoth ==
  Len(generateBrowserInstructions(requests, Registry))
    + Len(generateApiInstructions(requests, Registry))

C17_DefaultConfigWhenUnreadable ==
  (op = "loadConfig" /\ pc = "done" /\ ~configFile.readable) =>
    /\ returned = getDefaultConfig
    /\ returned.version = "5.0"
    /\ Len(returned.filters) = 7
    /\ \A n \in 1..7 : returned.filters[n].num = NumberString(n)
    /\ returned.phases = <<>>

C17_Witness ==
  /\ op = "loadConfig"
  /\ pc = "done"
  /\ ~configFile.readable
  /\ Len(config.filters) = 7

\* A fravia_execute call has just been received: the step of its handler
ExecuteReceived == calls' = calls + 1 /\ request'.name = "fravia_execute"

\* The arguments the claim names: a phase outside 1..8, a missing or empty
\* topic list, a codes string that is empty after trimming
Malformed(args) ==
  \/ args.phase # <<>> /\ args.phase[1] \notin 1..8
  \/ args.topics = <<>>
  \/ args.topics # <<>> /\ Len(args.topics[1]) = 0
  \/ args.codes # <<>> /\ \A i \in DOMAIN args.codes[1] : args.codes[1][i] \in Whitespace

\* C11: fravia_execute called with a phase outside 1..8, a missing or empty
\* topic list, or a codes string that is empty after trimming answers with
\* an error response, builds no query (no call is left waiting, the locals
\* of buildQueries are untouched) and leaves the subject map, the phase
\* cursor and the stop flag unchanged.
C11_MalformedExecuteRejected ==
  [][(ExecuteReceived /\ Malformed(request'.args)) =>
       /\ response'.isError
       /\ pending' = pending
       /\ <<menu, queries, returned>>' = <<menu, queries, returned>>
       /\ subjectMap' = subjectMap
       /\ currentPhase' = currentPhase
       /\ stopRequested' = stopRequested]_vars

\* after fravia_stop(continue_to_phase = 3), a call with blank codes
C11_Witness ==
  /\ request.name = "fravia_execute"
  /\ request.args.codes = << <<" ", "\t">> >>
  /\ response.isError
  /\ currentPhase = <<3>>
  /\ stopRequested
  /\ pending = <<>>

\* The lines of the queries in the text of a response
QueryLines(qs) == [i \in DOMAIN qs |-> [engine |-> qs[i].engine, query |-> qs[i].query]]

\* What construct returns for the arguments of a call, on its own
InIsolation(c) == buildQueries(c.phase[1], c.topics, c.codes, getDefaultConfig)

\* C12: for any interleaving of fravia_execute calls in flight and any tool
\* calls before them, the queries a call has constructed, and the queries
\* its response reports, are the ones construct returns for that call's
\* arguments alone.
C12_ConstructInIsolation ==
  /\ [](\A i \in DOMAIN pending : pending[i].queries = InIsolation(pending[i]))
  /\ [][Len(pending') < Len(pending) =>
          \E i \in DOMAIN pending :
            /\ pending' = SubSeq(pending, 1, i - 1) \o SubSeq(pending, i + 1, Len(pending))
            /\ response'.tool = "fravia_execute"
            /\ response'.queries = QueryLines(InIsolation(pending[i]))]_vars

\* two calls in flight with different queries, after the first has set the
\* subject with the id 1
C12_Witness ==
  /\ Len(pending) = 2
  /\ pending[1].topics = << <<"y">>, <<"x">> >>
  /\ pending[2].topics = << <<"x">> >>
  /\ pending[1].queries # pending[2].queries
  /\ pending[2].queries # <<>>
  /\ Len(subjectMap) = 2

\* C13: no call changes the filter table, and the topic list and the codes
\* string of a call are after construction what they were given as; after
\* any sequence of calls, some of them relaxing filters, the hygiene clause
\* for empty codes is still the clause of all filters, for every engine.
C13_TablesUnchanged ==
  /\ [](/\ config = getDefaultConfig
        /\ \A eng \in EngineInputs :
             getActiveFilters(<<>>, config, eng) = AllClauses(ExpectedDialect(eng)))
  /\ [][/\ config' = config
        /\ Len(pending') > Len(pending) =>
             /\ pending'[Len(pending')].topics = request'.args.topics[1]
             /\ pending'[Len(pending')].codes = request'.args.codes[1]]_vars

\* a call that relaxes the social filter, then one that relaxes none
C13_Witness ==
  /\ Len(pending) = 2
  /\ pending[1].codes = <<"s", " ", "X">>
  /\ pending[2].codes = <<"A">>
  /\ pending[2].queries = InIsolation(pending[2])
  /\ pending[2].queries # <<>>

\* The templates the menu holds for an engine of a block
TemplatesOf(code, eng) ==
  LET block == blocksWith(menu, code)
  IN  IF block = <<>> THEN {}
      ELSE UNION {Range(block[1].engines[e].templates) :
                    e \in {e \in DOMAIN block[1].engines : block[1].engines[e].engine = eng}}

\* The template with the topics substituted, as text
Substituted(template) ==
  Flatten(replaceUnreplaced(replaceTopics(template, topics, 0), topics))

\* What follows the substituted template in every query of an engine: one
\* space and the hygiene clause, or nothing when the clause is empty
ClauseSuffix(eng) ==
  LET clause == getActiveFilters(codes, config, <<eng>>)
  IN  IF clause = "" THEN "" ELSE " " \o clause

AllRelaxed == \A i \in DOMAIN NOISE_FILTERS : NOISE_FILTERS[i].code \in Range(codes)

\* C21: every returned query is the topic-substituted template followed, if
\* and only if the hygiene clause for (codes, engine) is non-empty, by one
\* space and that clause; the queries of one engine carry the same clause;
\* when codes holds all seven relax letters nothing is appended.
C21_ClauseAppendedOnce ==
  Built =>
    \A k \in DOMAIN returned :
      LET q == returned[k]
      IN  /\ \E t \in TemplatesOf(q.blockCode, q.engine) :
               q.query = Substituted(t) \o ClauseSuffix(q.engine)
          /\ AllRelaxed =>
               /\ ClauseSuffix(q.engine) = ""
               /\ \E t \in TemplatesOf(q.blockCode, q.engine) : q.query = Substituted(t)

\* All seven letters relaxed and queries returned
C21_Witness ==
  /\ Built
  /\ AllRelaxed
  /\ returned # <<>>

\* The codes of a sequence of menu entries are single uppercase letters
SingleUppercase(entries) == \A i \in DOMAIN entries : entries[i].code \in Range(Upper)

\* No two entries of the sequence share a code
UniqueCodes(entries) ==
  \A i, j \in DOMAIN entries : entries[i].code = entries[j].code => i = j

MenuWellFormed(m) ==
  LET blockCodes == {m.buildingBlocks[i].code : i \in DOMAIN m.buildingBlocks}
      precomboCodes == {m.precombinations[i].code : i \in DOMAIN m.precombinations}
  IN  /\ SingleUppercase(m.buildingBlocks)
      /\ UniqueCodes(m.buildingBlocks)
      /\ SingleUppercase(m.precombinations)
      /\ blockCodes \cap precomboCodes = {}
      /\ \A i \in DOMAIN m.precombinations :
           /\ m.precombinations[i].expandsTo # <<>>
           /\ Range(m.precombinations[i].expandsTo) \subseteq blockCodes

\* C23: in the menu of every configured phase (1..8) the building-block codes
\* are single uppercase letters unique within the phase, the precombination
\* codes are single uppercase letters that are no building-block code of the
\* phase, and every constituent of every precombination is a building-block
\* code of the same phase.
C23_MenusWellFormed ==
  /\ DOMAIN PHASE_MENUS = 1..8
  /\ \A p \in DOMAIN PHASE_MENUS : MenuWellFormed(getPhaseMenu(p))
  /\ Built => MenuWellFormed(menu)

\* The menu of a configured phase with precombinations was read
C23_Witness ==
  /\ Built
  /\ phase \in DOMAIN PHASE_MENUS
  /\ menu.precombinations # <<>>
  /\ menu.buildingBlocks # <<>>

\* The clauses left when exactly the filter at index i is relaxed, in the
\* dialect of the engine
ClausesWithout(i, d) ==
  LET kept == [k \in 1..(Len(config.filters) - 1) |->
                 config.filters[IF k < i THEN k ELSE k + 1]]
  IN  [k \in DOMAIN kept |-> kept[k][d]]

\* C24: NOISE_FILTERS has the codes s, f, t, u, c, l, a in that order, all ON
\* by default; the resolver's table maps the i-th of them to filter key i; the
\* default configuration's filter at key i has that letter as its code; so a
\* relax letter alone relaxes the filter advertised for it and no other, and
\* no two letters relax the same filter.
C24_RelaxTablesAgree ==
  /\ [i \in DOMAIN NOISE_FILTERS |-> NOISE_FILTERS[i].code]
       = <<"s", "f", "t", "u", "c", "l", "a">>
  /\ \A i \in DOMAIN NOISE_FILTERS : NOISE_FILTERS[i].default = "ON"
  /\ DOMAIN codeToNumber = RelaxLetters
  /\ \A i \in DOMAIN NOISE_FILTERS : codeToNumber[NOISE_FILTERS[i].code] = NumberString(i)
  /\ \A c, d \in DOMAIN codeToNumber : codeToNumber[c] = codeToNumber[d] => c = d
  /\ DOMAIN getDefaultConfig.filters = DOMAIN NOISE_FILTERS
  /\ \A i \in DOMAIN NOISE_FILTERS :
       /\ getDefaultConfig.filters[i].num = NumberString(i)
       /\ getDefaultConfig.filters[i].code = NOISE_FILTERS[i].code
  /\ Resolved /\ Len(codes) = 1 /\ codes[1] \in RelaxLetters =>
       \A i \in DOMAIN NOISE_FILTERS :
         NOISE_FILTERS[i].code = codes[1] =>
           exclusions = ClausesWithout(i, ExpectedDialect(engine))

\* A relax letter alone was resolved and six clauses are left
C24_Witness ==
  /\ Resolved
  /\ Len(codes) = 1
  /\ codes[1] \in RelaxLetters
  /\ Len(exclusions) = Len(NOISE_FILTERS) - 1

\* C28: topic text is inserted verbatim and is not interpreted again: every
\* returned query is a template of its block and engine with all placeholders
\* replaced at once (<j> by topics[j] when j < |topics|), followed by the
\* hygiene clause, also when a topic holds placeholder-shaped text.
C28_TopicsInsertedVerbatim ==
  Built =>
    \A k \in DOMAIN returned :
      \E t \in TemplatesOf(returned[k].blockCode, returned[k].engine) :
        returned[k].query
          = Flatten(PlaceholdersFilled(t, 1, topics)) \o ClauseSuffix(returned[k].engine)

RECURSIVE SumOf(_)
SumOf(ns) == IF ns = <<>> THEN 0 ELSE Head(ns) + SumOf(Tail(ns))

\* The number of (matched block, engine, template) triples of a call
TripleCount ==
  LET matched == BlocksEntered(menu, codes)
      Templates(code) ==
        LET block == blocksWith(menu, code)[1]
        IN  SumOf([e \in DOMAIN block.engines |-> Len(block.engines[e].templates)])
  IN  SumOf([b \in DOMAIN matched |-> Templates(matched[b])])

\* C29: the queries pushed for the topic indices i of one (block, engine,
\* template) are identical, so construct returns at most one query per
\* (matched block, engine, template), however many topics are given.
C29_OneQueryPerTemplate ==
  Built =>
    LET n == Len(topics)
    IN  /\ Len(queries) = TripleCount * n
        /\ \A k \in DOMAIN queries : queries[k] = queries[((k - 1) \div n) * n + 1]
        /\ Len(returned) <= TripleCount

\* Several topics, and fewer queries returned than pushed
C29_Witness ==
  /\ Built
  /\ Len(topics) >= 2
  /\ topics[1] # topics[2]
  /\ returned # <<>>
  /\ Len(returned) < Len(queries)

\* The engine identifiers of the menus: none holds a colon
EngineIds == {"archive", "baidu", "bing", "google", "scholar", "yandex"}

\* C30: deduplication drops no query whose (engine, query) pair differs from
\* that of every earlier query: for the engine identifiers and query strings
\* of a call the key engine + ":" + query is equal for two queries only if
\* engine and query are both equal, and every pushed pair is returned.
C30_KeyTellsPairsApart ==
  /\ \A p \in DOMAIN PHASE_MENUS :
       \A b \in DOMAIN PHASE_MENUS[p].buildingBlocks :
         \A e \in DOMAIN PHASE_MENUS[p].buildingBlocks[b].engines :
           PHASE_MENUS[p].buildingBlocks[b].engines[e].engine \in EngineIds
  /\ Built =>
       /\ \A i, j \in DOMAIN queries :
            dedupKey(queries[i]) = dedupKey(queries[j]) =>
              /\ queries[i].engine = queries[j].engine
              /\ queries[i].query = queries[j].query
       /\ PairsOf(returned) = PairsOf(queries)

\* Queries of several engines and several templates of one engine were pushed
C30_Witness ==
  /\ Built
  /\ \E i, j \in DOMAIN queries :
       /\ queries[i].engine = queries[j].engine
       /\ queries[i].query # queries[j].query
  /\ \E i, j \in DOMAIN queries : queries[i].engine # queries[j].engine
  /\ Len(returned) < Len(queries)

\* A step is the handling of a call of the tool
Called(tool) == calls' = calls + 1 /\ request'.name = tool

\* C25: the cursor fravia_get_index reports is 1 at first and afterwards the
\* phase of the last fravia_get_menu(phase) or fravia_stop(continue_to_phase)
\* call that succeeded; fravia_execute, fravia_set_subjects, fravia_get_index,
\* fravia_stop without continue_to_phase and every call answered with an
\* error leave it as it is.
C25_CursorFollowsCalls ==
  /\ currentPhase = <<1>>
  /\ [][/\ Called("fravia_get_index") =>
             response'.nextPhaseCode = StringOfValue(currentPhase)
        /\ IF Called("fravia_get_menu") /\ ~response'.isError
             THEN currentPhase' = request'.args.phase
           ELSE IF /\ Called("fravia_stop")
                   /\ ~response'.isError
                   /\ request'.args.continue_to_phase # <<>>
                   /\ response'.followup
             THEN currentPhase' = request'.args.continue_to_phase
           ELSE currentPhase' = currentPhase]_vars

\* C26: after any sequence of tool calls, with arguments in order, out of
\* range, not whole or missing, the cursor currentPhase is a whole number in
\* 1..8.
C26_CursorInRange == currentPhase \in {<<n>> : n \in 1..8}

\* C27: fravia_stop with continue_to_phase = p in 1..8 names as complete the
\* phase that was the cursor before the call, announces the continuation to
\* p, makes p the cursor and sets the stop flag; the flag, once set, stays
\* set under every later step.
C27_StopNamesCursorComplete ==
  [][/\ (Called("fravia_stop") /\ request'.args.continue_to_phase \in {<<p>> : p \in 1..8}) =>
          /\ ~response'.isError
          /\ response'.followup
          /\ response'.complete = StringOfValue(currentPhase)
          /\ response'.continuing = StringOfValue(request'.args.continue_to_phase)
          /\ currentPhase' = request'.args.continue_to_phase
          /\ stopRequested'
     /\ stopRequested => stopRequested']_vars

\* The registry executeQueries reads
ExecuteRegistry == loadEngines(engineCache, enginesFile)

\* A result stands for a query: it is the instruction of one of the
\* generators for the query's engine and text, or the manual fallback of the
\* query
Represents(r, q) ==
  /\ r.engine = q.engine
  /\ \/ /\ mapGet(ExecuteRegistry, q.engine) # <<>>
        /\ r.title \in {"[BROWSER] " \o q.engine, "[API] " \o q.engine}
        /\ r.url = buildSearchUrl(mapGet(ExecuteRegistry, q.engine)[1], q.query)
     \/ /\ r.query = Flatten(q.query)
        /\ r.snippet = "Execute manually: " \o Flatten(q.query)

\* C22: for every list of queries and every registry, each query given to
\* executeQueries is represented by an entry of the plan returned: a browser
\* instruction, an API descriptor or a manual fallback, also when several
\* queries have the same engine that is not registered or is registered with
\* a type other than browser and api.
C22_EveryQueryInPlan ==
  (op = "executeQueries" /\ pc = "done") =>
    \A i \in DOMAIN queries : \E k \in DOMAIN returned : Represents(returned[k], queries[i])

====
